---- MODULE Spec2Model ----
(***************************************************************************)
(* Model of SearchComponent (felice-search-engine/src/Search.tsx): the     *)
(* session state held in React state hooks, the handlers handleSearch,     *)
(* handleTabChange and handlePageChange, the buttons that invoke them, and *)
(* the filter / normalisation pipeline applied to a response.              *)
(*                                                                         *)
(* A JavaScript string is a sequence of one-character strings; the value   *)
(* undefined of a string-typed property is the sentinel Undefined.  Every  *)
(* handler runs to completion on the browser's event loop, so a handler    *)
(* (up to its await) and the continuation after the await are each one     *)
(* atomic action; handlers read the state of the latest render.            *)
(***************************************************************************)
EXTENDS Integers, Sequences, FiniteSets, TLC

(***************************************************************************)
(* Strings.  A JavaScript string is the sequence of its characters (code   *)
(* points); the value undefined of a string-typed property is the sentinel *)
(* Undefined.  A character is a TLA+ string: the character itself when it  *)
(* is printable ASCII (U+0020 to U+007E) other than the grave accent,      *)
(* "\t", "\n", "\f" or "\r", and otherwise "U+" followed by its code point *)
(* in upper-case hexadecimal digits, at least four of them and no more     *)
(* than needed: "U+212A" is KELVIN SIGN, "U+00C9" is E WITH ACUTE,         *)
(* "U+0060" is the grave accent (which a TLA+ string cannot hold),         *)
(* "U+0000" is NUL, "U+1F600" is a character outside the basic plane (a    *)
(* surrogate pair in the code).  A surrogate that is not part of a pair is *)
(* a character of its own.                                                 *)
(***************************************************************************)
Undefined == <<"undefined">>

EmptyString == <<>>

\* the characters U+0020 to U+007E in order
Printable ==
  <<" ","!","\"","#","$","%","&","'","(",")","*","+",",","-",".","/",
    "0","1","2","3","4","5","6","7","8","9",":",";","<","=",">","?",
    "@","A","B","C","D","E","F","G","H","I","J","K","L","M","N","O",
    "P","Q","R","S","T","U","V","W","X","Y","Z","[","\\","]","^","_",
    "U+0060","a","b","c","d","e","f","g","h","i","j","k","l","m","n","o",
    "p","q","r","s","t","u","v","w","x","y","z","{","|","}","~">>

\* the code point of a character written as itself
PrintableCode ==
  [c \in {Printable[i] : i \in 1..Len(Printable)} |->
     31 + CHOOSE i \in 1..Len(Printable) : Printable[i] = c]

\* the number written by a TLA+ string of hexadecimal digits
RECURSIVE HexNumber(_)
HexNumber(h) ==
  IF Len(h) = 0 THEN 0
  ELSE LET d == SubSeq(h, Len(h), Len(h))
       IN  16 * HexNumber(SubSeq(h, 1, Len(h) - 1))
           + (CHOOSE i \in 1..16 : SubSeq("0123456789ABCDEF", i, i) = d) - 1

\* String.prototype.codePointAt(0) of a character
CodePoint(c) ==
  IF Len(c) > 1 THEN HexNumber(SubSeq(c, 3, Len(c)))
  ELSE IF c = "\t" THEN 9
  ELSE IF c = "\n" THEN 10
  ELSE IF c = "\f" THEN 12
  ELSE IF c = "\r" THEN 13
  ELSE PrintableCode[c]

\* n in upper-case hexadecimal digits, as a TLA+ string, in at least width digits
RECURSIVE HexName(_, _)
HexName(n, width) ==
  LET digit == SubSeq("0123456789ABCDEF", (n % 16) + 1, (n % 16) + 1)
  IN  IF n < 16 /\ width <= 1 THEN digit ELSE HexName(n \div 16, width - 1) \o digit

\* String.fromCodePoint(n)
Char(n) ==
  IF n \in 32..126 THEN Printable[n - 31]
  ELSE IF n = 9 THEN "\t"
  ELSE IF n = 10 THEN "\n"
  ELSE IF n = 12 THEN "\f"
  ELSE IF n = 13 THEN "\r"
  ELSE "U+" \o HexName(n, 4)

\* a string as the sequence of its code points, and back
CodePoints(s) == [i \in 1..Len(s) |-> CodePoint(s[i])]

Chars(u) == [i \in 1..Len(u) |-> Char(u[i])]

\* the value of a function on a domain of one element: Only([x \in {e} |-> body])
\* is body with x the value of e, an intermediate result computed once
Only(f) == CHOOSE y \in { f[x] : x \in DOMAIN f } : TRUE

Least(S) == CHOOSE x \in S : \A y \in S : x <= y

Greatest(S) == CHOOSE x \in S : \A y \in S : x >= y

\* The tables of the Unicode Character Database are tuples of numbers, the
\* rows one after the other.
\* is n in one of the ranges of table; its rows are first, last
InRanges(table, n) ==
  \E i \in 1..(Len(table) \div 2) : table[2 * i - 1] <= n /\ n <= table[2 * i]

\* the image of n under a table of runs, n where it is in no run; the rows are
\* first, last, image of first, step: the code points first + k * step up to
\* last map to consecutive images
RunImage(table, n) ==
  LET rows == { i \in 1..(Len(table) \div 4) :
                  /\ table[4 * i - 3] <= n /\ n <= table[4 * i - 2]
                  /\ (n - table[4 * i - 3]) % table[4 * i] = 0 }
  IN  IF rows = {} THEN n
      ELSE n + (table[4 * Least(rows) - 1] - table[4 * Least(rows) - 3])

\* the sequence a table gives n, <<>> where it has no row for n; the rows are
\* the code point and its sequence, filled with 0 up to width entries
Expansion(table, width, n) ==
  LET rows == { i \in 0..((Len(table) \div (width + 1)) - 1) : table[i * (width + 1) + 1] = n }
  IN  IF rows = {} THEN <<>>
      ELSE SelectSeq(SubSeq(table, Least(rows) * (width + 1) + 2,
                            (Least(rows) + 1) * (width + 1)),
                     LAMBDA c : c # 0)

\* the parts one after the other, for parts of at most width code points: the
\* parts are laid out in cells of width entries and the filling is dropped
Flat(parts, width) ==
  LET cells == parts \o <<>>
  IN  SelectSeq([i \in 1..(Len(cells) * width) |->
                   IF ((i - 1) % width) + 1 <= Len(cells[((i - 1) \div width) + 1])
                   THEN cells[((i - 1) \div width) + 1][((i - 1) % width) + 1]
                   ELSE 1114112],
                LAMBDA c : c # 1114112)

\* the parts joined by the code points sep, one half of the parts and the other
RECURSIVE Join(_, _)
Join(parts, sep) ==
  IF Len(parts) = 0 THEN <<>>
  ELSE IF Len(parts) = 1 THEN parts[1]
  ELSE Join(SubSeq(parts, 1, Len(parts) \div 2), sep) \o sep
       \o Join(SubSeq(parts, (Len(parts) \div 2) + 1, Len(parts)), sep)

(***************************************************************************)
(* String.prototype.toLowerCase: the default case conversion of Unicode    *)
(* (UnicodeData.txt Simple_Lowercase_Mapping, and the two rules of         *)
(* SpecialCasing.txt that do not depend on a language: U+0130 and the      *)
(* final sigma).  The tables are those of Unicode 17.0, the version of the *)
(* ICU library of the runtime.                                             *)
(***************************************************************************)
\* Simple_Lowercase_Mapping, as runs
LowerRuns ==
  << 65,90,97,1,  192,214,224,1,  216,222,248,1,  256,302,257,2,  306,310,307,2,  313,327,314,2,
    330,374,331,2,  376,376,255,1,  377,381,378,2,  385,385,595,1,  386,388,387,2,
    390,390,596,1,  391,391,392,1,  393,394,598,1,  395,395,396,1,  398,398,477,1,
    399,399,601,1,  400,400,603,1,  401,401,402,1,  403,403,608,1,  404,404,611,1,
    406,406,617,1,  407,407,616,1,  408,408,409,1,  412,412,623,1,  413,413,626,1,
    415,415,629,1,  416,420,417,2,  422,422,640,1,  423,423,424,1,  425,425,643,1,
    428,428,429,1,  430,430,648,1,  431,431,432,1,  433,434,650,1,  435,437,436,2,
    439,439,658,1,  440,440,441,1,  444,444,445,1,  452,452,454,1,  453,453,454,1,
    455,455,457,1,  456,456,457,1,  458,458,460,1,  459,475,460,2,  478,494,479,2,
    497,497,499,1,  498,500,499,2,  502,502,405,1,  503,503,447,1,  504,542,505,2,
    544,544,414,1,  546,562,547,2,  570,570,11365,1,  571,571,572,1,  573,573,410,1,
    574,574,11366,1,  577,577,578,1,  579,579,384,1,  580,580,649,1,  581,581,652,1,
    582,590,583,2,  880,882,881,2,  886,886,887,1,  895,895,1011,1,  902,902,940,1,
    904,906,941,1,  908,908,972,1,  910,911,973,1,  913,929,945,1,  931,939,963,1,
    975,975,983,1,  984,1006,985,2,  1012,1012,952,1,  1015,1015,1016,1,  1017,1017,1010,1,
    1018,1018,1019,1,  1021,1023,891,1,  1024,1039,1104,1,  1040,1071,1072,1,  1120,1152,1121,2,
    1162,1214,1163,2,  1216,1216,1231,1,  1217,1229,1218,2,  1232,1326,1233,2,
    1329,1366,1377,1,  4256,4293,11520,1,  4295,4295,11559,1,  4301,4301,11565,1,
    5024,5103,43888,1,  5104,5109,5112,1,  7305,7305,7306,1,  7312,7354,4304,1,
    7357,7359,4349,1,  7680,7828,7681,2,  7838,7838,223,1,  7840,7934,7841,2,  7944,7951,7936,1,
    7960,7965,7952,1,  7976,7983,7968,1,  7992,7999,7984,1,  8008,8013,8000,1,
    8025,8031,8017,2,  8040,8047,8032,1,  8072,8079,8064,1,  8088,8095,8080,1,
    8104,8111,8096,1,  8120,8121,8112,1,  8122,8123,8048,1,  8124,8124,8115,1,
    8136,8139,8050,1,  8140,8140,8131,1,  8152,8153,8144,1,  8154,8155,8054,1,
    8168,8169,8160,1,  8170,8171,8058,1,  8172,8172,8165,1,  8184,8185,8056,1,
    8186,8187,8060,1,  8188,8188,8179,1,  8486,8486,969,1,  8490,8490,107,1,  8491,8491,229,1,
    8498,8498,8526,1,  8544,8559,8560,1,  8579,8579,8580,1,  9398,9423,9424,1,
    11264,11311,11312,1,  11360,11360,11361,1,  11362,11362,619,1,  11363,11363,7549,1,
    11364,11364,637,1,  11367,11371,11368,2,  11373,11373,593,1,  11374,11374,625,1,
    11375,11375,592,1,  11376,11376,594,1,  11378,11378,11379,1,  11381,11381,11382,1,
    11390,11391,575,1,  11392,11490,11393,2,  11499,11501,11500,2,  11506,11506,11507,1,
    42560,42604,42561,2,  42624,42650,42625,2,  42786,42798,42787,2,  42802,42862,42803,2,
    42873,42875,42874,2,  42877,42877,7545,1,  42878,42886,42879,2,  42891,42891,42892,1,
    42893,42893,613,1,  42896,42898,42897,2,  42902,42920,42903,2,  42922,42922,614,1,
    42923,42923,604,1,  42924,42924,609,1,  42925,42925,620,1,  42926,42926,618,1,
    42928,42928,670,1,  42929,42929,647,1,  42930,42930,669,1,  42931,42931,43859,1,
    42932,42946,42933,2,  42948,42948,42900,1,  42949,42949,642,1,  42950,42950,7566,1,
    42951,42953,42952,2,  42955,42955,612,1,  42956,42970,42957,2,  42972,42972,411,1,
    42997,42997,42998,1,  65313,65338,65345,1,  66560,66599,66600,1,  66736,66771,66776,1,
    66928,66938,66967,1,  66940,66954,66979,1,  66956,66962,66995,1,  66964,66965,67003,1,
    68736,68786,68800,1,  68944,68965,68976,1,  71840,71871,71872,1,  93760,93791,93792,1,
    93856,93880,93883,1,  125184,125217,125218,1 >>

\* the code points with property Case_Ignorable, as ranges <<first, last>>
CaseIgnorable ==
  << 39,39,  46,46,  58,58,  94,94,  96,96,  168,168,  173,173,  175,175,  180,180,  183,184,
    688,879,  884,885,  890,890,  900,901,  903,903,  1155,1161,  1369,1369,  1375,1375,
    1425,1469,  1471,1471,  1473,1474,  1476,1477,  1479,1479,  1524,1524,  1536,1541,
    1552,1562,  1564,1564,  1600,1600,  1611,1631,  1648,1648,  1750,1757,  1759,1768,
    1770,1773,  1807,1807,  1809,1809,  1840,1866,  1958,1968,  2027,2037,  2042,2042,
    2045,2045,  2070,2093,  2137,2139,  2184,2184,  2192,2193,  2199,2207,  2249,2306,
    2362,2362,  2364,2364,  2369,2376,  2381,2381,  2385,2391,  2402,2403,  2417,2417,
    2433,2433,  2492,2492,  2497,2500,  2509,2509,  2530,2531,  2558,2558,  2561,2562,
    2620,2620,  2625,2626,  2631,2632,  2635,2637,  2641,2641,  2672,2673,  2677,2677,
    2689,2690,  2748,2748,  2753,2757,  2759,2760,  2765,2765,  2786,2787,  2810,2815,
    2817,2817,  2876,2876,  2879,2879,  2881,2884,  2893,2893,  2901,2902,  2914,2915,
    2946,2946,  3008,3008,  3021,3021,  3072,3072,  3076,3076,  3132,3132,  3134,3136,
    3142,3144,  3146,3149,  3157,3158,  3170,3171,  3201,3201,  3260,3260,  3263,3263,
    3270,3270,  3276,3277,  3298,3299,  3328,3329,  3387,3388,  3393,3396,  3405,3405,
    3426,3427,  3457,3457,  3530,3530,  3538,3540,  3542,3542,  3633,3633,  3636,3642,
    3654,3662,  3761,3761,  3764,3772,  3782,3782,  3784,3790,  3864,3865,  3893,3893,
    3895,3895,  3897,3897,  3953,3966,  3968,3972,  3974,3975,  3981,3991,  3993,4028,
    4038,4038,  4141,4144,  4146,4151,  4153,4154,  4157,4158,  4184,4185,  4190,4192,
    4209,4212,  4226,4226,  4229,4230,  4237,4237,  4253,4253,  4348,4348,  4957,4959,
    5906,5908,  5938,5939,  5970,5971,  6002,6003,  6068,6069,  6071,6077,  6086,6086,
    6089,6099,  6103,6103,  6109,6109,  6155,6159,  6211,6211,  6277,6278,  6313,6313,
    6432,6434,  6439,6440,  6450,6450,  6457,6459,  6679,6680,  6683,6683,  6742,6742,
    6744,6750,  6752,6752,  6754,6754,  6757,6764,  6771,6780,  6783,6783,  6823,6823,
    6832,6877,  6880,6891,  6912,6915,  6964,6964,  6966,6970,  6972,6972,  6978,6978,
    7019,7027,  7040,7041,  7074,7077,  7080,7081,  7083,7085,  7142,7142,  7144,7145,
    7149,7149,  7151,7153,  7212,7219,  7222,7223,  7288,7293,  7376,7378,  7380,7392,
    7394,7400,  7405,7405,  7412,7412,  7416,7417,  7468,7530,  7544,7544,  7579,7679,
    8125,8125,  8127,8129,  8141,8143,  8157,8159,  8173,8175,  8189,8190,  8203,8207,
    8216,8217,  8228,8228,  8231,8231,  8234,8238,  8288,8292,  8294,8303,  8305,8305,
    8319,8319,  8336,8348,  8400,8432,  11388,11389,  11503,11505,  11631,11631,  11647,11647,
    11744,11775,  11823,11823,  12293,12293,  12330,12333,  12337,12341,  12347,12347,
    12441,12446,  12540,12542,  40981,40981,  42232,42237,  42508,42508,  42607,42610,
    42612,42621,  42623,42623,  42652,42655,  42736,42737,  42752,42785,  42864,42864,
    42888,42890,  42993,42996,  43000,43001,  43010,43010,  43014,43014,  43019,43019,
    43045,43046,  43052,43052,  43204,43205,  43232,43249,  43263,43263,  43302,43309,
    43335,43345,  43392,43394,  43443,43443,  43446,43449,  43452,43453,  43471,43471,
    43493,43494,  43561,43566,  43569,43570,  43573,43574,  43587,43587,  43596,43596,
    43632,43632,  43644,43644,  43696,43696,  43698,43700,  43703,43704,  43710,43711,
    43713,43713,  43741,43741,  43756,43757,  43763,43764,  43766,43766,  43867,43871,
    43881,43883,  44005,44005,  44008,44008,  44013,44013,  64286,64286,  64434,64450,
    65024,65039,  65043,65043,  65056,65071,  65106,65106,  65109,65109,  65279,65279,
    65287,65287,  65294,65294,  65306,65306,  65342,65342,  65344,65344,  65392,65392,
    65438,65439,  65507,65507,  65529,65531,  66045,66045,  66272,66272,  66422,66426,
    67456,67461,  67463,67504,  67506,67514,  68097,68099,  68101,68102,  68108,68111,
    68152,68154,  68159,68159,  68325,68326,  68900,68903,  68942,68942,  68969,68973,
    68975,68975,  69291,69292,  69317,69317,  69370,69375,  69446,69456,  69506,69509,
    69633,69633,  69688,69702,  69744,69744,  69747,69748,  69759,69761,  69811,69814,
    69817,69818,  69821,69821,  69826,69826,  69837,69837,  69888,69890,  69927,69931,
    69933,69940,  70003,70003,  70016,70017,  70070,70078,  70089,70092,  70095,70095,
    70191,70193,  70196,70196,  70198,70199,  70206,70206,  70209,70209,  70367,70367,
    70371,70378,  70400,70401,  70459,70460,  70464,70464,  70502,70508,  70512,70516,
    70587,70592,  70606,70606,  70608,70608,  70610,70610,  70625,70626,  70712,70719,
    70722,70724,  70726,70726,  70750,70750,  70835,70840,  70842,70842,  70847,70848,
    70850,70851,  71090,71093,  71100,71101,  71103,71104,  71132,71133,  71219,71226,
    71229,71229,  71231,71232,  71339,71339,  71341,71341,  71344,71349,  71351,71351,
    71453,71453,  71455,71455,  71458,71461,  71463,71467,  71727,71735,  71737,71738,
    71995,71996,  71998,71998,  72003,72003,  72148,72151,  72154,72155,  72160,72160,
    72193,72202,  72243,72248,  72251,72254,  72263,72263,  72273,72278,  72281,72283,
    72330,72342,  72344,72345,  72544,72544,  72546,72548,  72550,72550,  72752,72758,
    72760,72765,  72767,72767,  72850,72871,  72874,72880,  72882,72883,  72885,72886,
    73009,73014,  73018,73018,  73020,73021,  73023,73029,  73031,73031,  73104,73105,
    73109,73109,  73111,73111,  73177,73177,  73459,73460,  73472,73473,  73526,73530,
    73536,73536,  73538,73538,  73562,73562,  78896,78912,  78919,78933,  90398,90409,
    90413,90415,  92912,92916,  92976,92982,  92992,92995,  93504,93506,  93547,93548,
    94031,94031,  94095,94111,  94176,94177,  94179,94180,  94194,94195,  110576,110579,
    110581,110587,  110589,110590,  113821,113822,  113824,113827,  118528,118573,
    118576,118598,  119143,119145,  119155,119170,  119173,119179,  119210,119213,
    119362,119364,  121344,121398,  121403,121452,  121461,121461,  121476,121476,
    121499,121503,  121505,121519,  122880,122886,  122888,122904,  122907,122913,
    122915,122916,  122918,122922,  122928,122989,  123023,123023,  123184,123197,
    123566,123566,  123628,123631,  124139,124143,  124398,124399,  124643,124643,
    124646,124646,  124654,124655,  124661,124661,  124671,124671,  125136,125142,
    125252,125259,  127995,127999,  917505,917505,  917536,917631,  917760,917999 >>

\* the code points with property Cased that are not Case_Ignorable
Cased ==
  << 65,90,  97,122,  170,170,  181,181,  186,186,  192,214,  216,246,  248,442,  444,447,
    452,659,  662,687,  880,883,  886,887,  891,893,  895,895,  902,902,  904,906,  908,908,
    910,929,  931,1013,  1015,1153,  1162,1327,  1329,1366,  1376,1416,  4256,4293,  4295,4295,
    4301,4301,  4304,4346,  4349,4351,  5024,5109,  5112,5117,  7296,7306,  7312,7354,
    7357,7359,  7424,7467,  7531,7543,  7545,7578,  7680,7957,  7960,7965,  7968,8005,
    8008,8013,  8016,8023,  8025,8025,  8027,8027,  8029,8029,  8031,8061,  8064,8116,
    8118,8124,  8126,8126,  8130,8132,  8134,8140,  8144,8147,  8150,8155,  8160,8172,
    8178,8180,  8182,8188,  8450,8450,  8455,8455,  8458,8467,  8469,8469,  8473,8477,
    8484,8484,  8486,8486,  8488,8488,  8490,8493,  8495,8500,  8505,8505,  8508,8511,
    8517,8521,  8526,8526,  8544,8575,  8579,8580,  9398,9449,  11264,11387,  11390,11492,
    11499,11502,  11506,11507,  11520,11557,  11559,11559,  11565,11565,  42560,42605,
    42624,42651,  42786,42863,  42865,42887,  42891,42894,  42896,42972,  42997,42998,
    43002,43002,  43824,43866,  43872,43880,  43888,43967,  64256,64262,  64275,64279,
    65313,65338,  65345,65370,  66560,66639,  66736,66771,  66776,66811,  66928,66938,
    66940,66954,  66956,66962,  66964,66965,  66967,66977,  66979,66993,  66995,67001,
    67003,67004,  68736,68786,  68800,68850,  68944,68965,  68976,68997,  71840,71903,
    93760,93823,  93856,93880,  93883,93907,  119808,119892,  119894,119964,  119966,119967,
    119970,119970,  119973,119974,  119977,119980,  119982,119993,  119995,119995,
    119997,120003,  120005,120069,  120071,120074,  120077,120084,  120086,120092,
    120094,120121,  120123,120126,  120128,120132,  120134,120134,  120138,120144,
    120146,120485,  120488,120512,  120514,120538,  120540,120570,  120572,120596,
    120598,120628,  120630,120654,  120656,120686,  120688,120712,  120714,120744,
    120746,120770,  120772,120779,  122624,122633,  122635,122654,  122661,122666,
    125184,125251,  127280,127305,  127312,127337,  127344,127369 >>

\* SpecialCasing Final_Sigma: u[i] follows a cased letter and no cased letter
\* follows it, case-ignorable code points skipped on both sides
FinalSigma(u, i) ==
  /\ \E j \in 1..(i - 1) :
       /\ ~InRanges(CaseIgnorable, u[j]) /\ InRanges(Cased, u[j])
       /\ \A k \in (j + 1)..(i - 1) : InRanges(CaseIgnorable, u[k])
  /\ ~\E j \in (i + 1)..Len(u) :
       /\ ~InRanges(CaseIgnorable, u[j]) /\ InRanges(Cased, u[j])
       /\ \A k \in (i + 1)..(j - 1) : InRanges(CaseIgnorable, u[k])

\* the lower case of u[i]: U+03A3 to U+03C2 or U+03C3, U+0130 to U+0069 U+0307,
\* any other code point by Simple_Lowercase_Mapping
LowerAt(u, i) ==
  LET n == u[i]
  IN  IF n = 931 THEN (IF FinalSigma(u, i) THEN <<962>> ELSE <<963>>)
      ELSE IF n = 304 THEN <<105, 775>>
      ELSE IF n < 128 THEN (IF n \in 65..90 THEN <<n + 32>> ELSE <<n>>)
      ELSE <<RunImage(LowerRuns, n)>>

\* String.prototype.toLowerCase
toLowerCase(s) ==
  LET u == CodePoints(s)
  IN  Chars(Flat([i \in 1..Len(u) |-> LowerAt(u, i)], 2))

\* String.prototype.includes: substring containment
includes(s, sub) ==
  \E i \in 0..(Len(s) - Len(sub)) : SubSeq(s, i + 1, i + Len(sub)) = sub

\* JavaScript truthiness of a string-or-undefined value
Truthy(v) == v # Undefined /\ v # EmptyString

\* a || b on string-or-undefined values
OrElse(a, b) == IF Truthy(a) THEN a ELSE b

(***************************************************************************)
(* Raw items the upstream API can deliver                                  *)
(***************************************************************************)
RawItem(name, url, snippet, displayUrl, contentUrl, thumbnailUrl) ==
  [ name |-> name, url |-> url, snippet |-> snippet, displayUrl |-> displayUrl,
    contentUrl |-> contentUrl, thumbnailUrl |-> thumbnailUrl ]

\* a web page
itCat ==
  RawItem(<<"C","a","t">>, <<"h","t","t","p","s",":","/","/","a",".","i","o","/","1">>,
          <<"m","e","o","w">>, <<"a",".","i","o","/","1">>, Undefined, Undefined)

\* a web page without snippet and display URL
itDog ==
  RawItem(<<"D","o","g">>, <<"h","t","t","p",":","/","/","b",".","i","o">>,
          Undefined, Undefined, Undefined, Undefined)

\* an image: no url, a contentUrl
itPic ==
  RawItem(<<"P","i","c">>, Undefined, Undefined, Undefined,
          <<"h","t","t","p","s",":","/","/","x",".","c","o","m","/","a",".","j","p","g">>,
          <<"h","t","t","p","s",":","/","/","t",".","c","o","/","a">>)

\* title "Buy KEYWORD1 now"
itKeyword ==
  RawItem(<<"B","u","y"," ","K","E","Y","W","O","R","D","1"," ","n","o","w">>,
          <<"h","t","t","p","s",":","/","/","a",".","i","o","/","2">>,
          <<"m","e","o","w">>, Undefined, Undefined, Undefined)

\* hostname example.com
itBlocked ==
  RawItem(<<"C","a","t">>,
          <<"h","t","t","p","s",":","/","/","e","x","a","m","p","l","e",".","c","o","m","/","p">>,
          <<"m","e","o","w">>, Undefined, Undefined, Undefined)

\* hostname sub.example.com
itSub ==
  RawItem(<<"S","u","b">>,
          <<"h","t","t","p","s",":","/","/","s","u","b",".","e","x","a","m","p","l","e",
            ".","c","o","m","/">>,
          <<"m","e","o","w">>, Undefined, Undefined, Undefined)

\* neither url nor contentUrl
itNoLink ==
  RawItem(<<"P","i","c">>, Undefined, Undefined, Undefined, Undefined, Undefined)

\* a web page whose url is the empty string
itEmptyLink ==
  RawItem(<<"C","a","t">>,
          EmptyString,
          <<"m","e","o","w">>, Undefined, Undefined, Undefined)

\* a link without a scheme: a.io/1
itBadLink ==
  RawItem(<<"C","a","t">>,
          <<"a",".","i","o","/","1">>,
          <<"m","e","o","w">>, Undefined, Undefined, Undefined)

\* a blocked title and a link without a scheme
itKeywordBadLink ==
  RawItem(<<"k","e","y","w","o","r","d","2">>,
          <<"a",".","i","o","/","1">>,
          Undefined, Undefined, Undefined, Undefined)

\* host written EXAMPLE.COM
itUpperHost ==
  RawItem(<<"U","p">>,
          <<"h","t","t","p","s",":","/","/","E","X","A","M","P","L","E",".","C","O","M","/">>,
          <<"m","e","o","w">>, Undefined, Undefined, Undefined)

\* hostname example.com, port 8080
itPort ==
  RawItem(<<"P","o","r","t">>,
          <<"h","t","t","p","s",":","/","/","e","x","a","m","p","l","e",".","c","o","m",":","8","0","8","0","/","x">>,
          <<"m","e","o","w">>, Undefined, Undefined, Undefined)

\* hostname anotherexample.com
itOtherDomain ==
  RawItem(<<"O","t","h","e","r">>,
          <<"h","t","t","p",":","/","/","a","n","o","t","h","e","r","e","x","a","m","p","l","e",".","c","o","m">>,
          Undefined, Undefined, Undefined, Undefined)

\* hostname notexample.com
itSuffix ==
  RawItem(<<"N","o","t">>,
          <<"h","t","t","p","s",":","/","/","n","o","t","e","x","a","m","p","l","e",".","c","o","m","/">>,
          Undefined, Undefined, Undefined, Undefined)

\* no title, snippet "a Keyword2"
itSnippetKeyword ==
  RawItem(Undefined,
          <<"h","t","t","p","s",":","/","/","a",".","i","o","/","3">>,
          <<"a"," ","K","e","y","w","o","r","d","2">>, Undefined, Undefined, Undefined)

\* title "xkeyword3y": the keyword inside a word
itInWord ==
  RawItem(<<"x","k","e","y","w","o","r","d","3","y">>,
          <<"h","t","t","p","s",":","/","/","a",".","i","o","/","4">>,
          EmptyString, Undefined, Undefined, Undefined)

\* credentials before the host: hostname example.com
itUserinfo ==
  RawItem(<<"C","a","t">>,
          <<"h","t","t","p","s",":","/","/","u","s","e","r","@","e","x","a","m","p","l","e",".","c","o","m","/","p">>,
          <<"m","e","o","w">>, Undefined, Undefined, Undefined)

\* a scheme other than http and https: hostname example.com
itFtp ==
  RawItem(<<"C","a","t">>,
          <<"f","t","p",":","/","/","e","x","a","m","p","l","e",".","c","o","m","/","f">>,
          <<"m","e","o","w">>, Undefined, Undefined, Undefined)

\* hostname example.com. with the dot of the root
itTrailingDot ==
  RawItem(<<"D","o","t">>,
          <<"h","t","t","p","s",":","/","/","e","x","a","m","p","l","e",".","c","o","m",".","/">>,
          <<"m","e","o","w">>, Undefined, Undefined, Undefined)

\* title KEYWORD1 written with U+212A KELVIN SIGN
itKelvin ==
  RawItem(<<"U+212A","E","Y","W","O","R","D","1">>,
          <<"h","t","t","p","s",":","/","/","a",".","i","o","/","5">>,
          <<"m","e","o","w">>, Undefined, Undefined, Undefined)

\* a space in the host: new URL throws
itSpaceHost ==
  RawItem(<<"C","a","t">>,
          <<"h","t","t","p","s",":","/","/","e","x","a"," ","m","p","l","e",".","c","o","m","/">>,
          <<"m","e","o","w">>, Undefined, Undefined, Undefined)

\* host written with U+FF45 FULLWIDTH LATIN SMALL LETTER E: hostname example.com
itFullwidth ==
  RawItem(<<"W","i","d","e">>,
          <<"h","t","t","p","s",":","/","/","U+FF45","x","a","m","p","l","e",".","c","o","m","/">>,
          <<"m","e","o","w">>, Undefined, Undefined, Undefined)

\* the raw items the filter is applied to
FilterItems ==
  { itCat, itDog, itPic, itKeyword, itBlocked, itSub, itNoLink, itEmptyLink, itBadLink,
    itKeywordBadLink, itUpperHost, itPort, itOtherDomain, itSuffix, itSnippetKeyword,
    itInWord, itUserinfo, itFtp, itTrailingDot, itKelvin, itSpaceHost, itFullwidth }

(***************************************************************************)
(* new URL(link): the URL parser of the URL Standard (url.spec.whatwg.org) *)
(* without a base URL, as far as the host is concerned, in the             *)
(* implementation of the runtime (the Ada URL parser).  The parser works   *)
(* on code points; a parse is a record: failure (new URL throws a          *)
(* TypeError) and host, the serialised host.                               *)
(***************************************************************************)
Failure == [failure |-> TRUE, host |-> <<>>]

Host(h) == [failure |-> FALSE, host |-> h]

IsDigit(n) == n \in 48..57

IsAlpha(n) == n \in 65..90 \/ n \in 97..122

IsHexDigit(n) == IsDigit(n) \/ n \in 65..70 \/ n \in 97..102

\* the value of an ASCII hex digit
DigitValue(n) == IF IsDigit(n) THEN n - 48 ELSE IF n >= 97 THEN n - 87 ELSE n - 55

AsciiLower(u) == [i \in 1..Len(u) |-> IF u[i] \in 65..90 THEN u[i] + 32 ELSE u[i]]

\* u from position i on
From(u, i) == SubSeq(u, i, Len(u))

\* u up to, not including, its first code point in stops
Before(u, stops) ==
  LET ends == { i \in 1..Len(u) : u[i] \in stops }
  IN  IF ends = {} THEN u ELSE SubSeq(u, 1, Least(ends) - 1)

\* u[p], or -1 past the end
At(u, p) == IF p \in 1..Len(u) THEN u[p] ELSE 0 - 1

\* the number of consecutive code points of u from p on that are in set
RunLength(u, p, set) ==
  LET others == { i \in p..Len(u) : u[i] \notin set }
  IN  IF others = {} THEN Len(u) - p + 1 ELSE Least(others) - p

\* the parts of u between the code points sep: at holds the positions of the
\* separators in order, between one before u and one after it
Split(u, sep) ==
  Only([at \in {<<0>> \o SelectSeq([i \in 1..Len(u) |-> i], LAMBDA i : u[i] = sep)
                 \o <<Len(u) + 1>>} |->
    [k \in 1..(Len(at) - 1) |-> SubSeq(u, at[k] + 1, at[k + 1] - 1)]])

\* the digits of n in radix R, the letters in lower case
RECURSIVE Digits(_, _)
Digits(n, R) ==
  LET d == n % R
      c == IF d < 10 THEN d + 48 ELSE d + 87
  IN  IF n < R THEN <<c>> ELSE Digits(n \div R, R) \o <<c>>

\* conversion of the argument to a USVString: a lone surrogate becomes U+FFFD
ToUSV(u) == [i \in 1..Len(u) |-> IF u[i] \in 55296..57343 THEN 65533 ELSE u[i]]

\* leading and trailing C0 control or space removed, then every tab and newline
Cleaned(u) ==
  LET keep == { i \in 1..Len(u) : u[i] > 32 }
      trimmed == IF keep = {} THEN <<>> ELSE SubSeq(u, Least(keep), Greatest(keep))
  IN  SelectSeq(trimmed, LAMBDA n : n \notin {9, 10, 13})

\* scheme state: the position of the ":" that ends the scheme, 0 when the input
\* does not start with a scheme
SchemeEnd(u) ==
  LET SchemeChar(n) == IsAlpha(n) \/ IsDigit(n) \/ n \in {43, 45, 46}
      colons == { k \in 1..Len(u) : u[k] = 58 /\ \A j \in 1..(k - 1) : SchemeChar(u[j]) }
  IN  IF Len(u) > 0 /\ IsAlpha(u[1]) /\ colons # {} THEN Least(colons) ELSE 0

\* the special schemes other than file
SpecialSchemes ==
  { <<"f","t","p">>, <<"h","t","t","p">>, <<"h","t","t","p","s">>, <<"w","s">>,
    <<"w","s","s">> }

(***************************************************************************)
(* Host parsing                                                            *)
(***************************************************************************)
\* forbidden host code points: NUL, tab, LF, CR, space, # / : < > ? @ [ \ ] ^ |
ForbiddenHost == {0, 9, 10, 13, 32, 35, 47, 58, 60, 62, 63, 64, 91, 92, 93, 94, 124}

\* forbidden domain code points: the above, the C0 controls, % and U+007F
ForbiddenDomain == ForbiddenHost \cup (0..31) \cup {37, 127}

\* UTF-8 encode
UTF8(n) ==
  IF n < 128 THEN <<n>>
  ELSE IF n < 2048 THEN <<192 + (n \div 64), 128 + (n % 64)>>
  ELSE IF n < 65536 THEN <<224 + (n \div 4096), 128 + ((n \div 64) % 64), 128 + (n % 64)>>
  ELSE <<240 + (n \div 262144), 128 + ((n \div 4096) % 64), 128 + ((n \div 64) % 64),
         128 + (n % 64)>>

\* percent-decode a byte sequence: "%" and the two hexadecimal digits after it
\* are one byte (no digit is "%", so that no two such triples overlap)
PercentDecode(b) ==
  LET Escape(i) == /\ b[i] = 37 /\ i + 2 <= Len(b)
                   /\ IsHexDigit(b[i + 1]) /\ IsHexDigit(b[i + 2])
  IN  SelectSeq([i \in 1..Len(b) |->
                   IF Escape(i) THEN 16 * DigitValue(b[i + 1]) + DigitValue(b[i + 2])
                   ELSE IF (i > 1 /\ Escape(i - 1)) \/ (i > 2 /\ Escape(i - 2)) THEN 256
                   ELSE b[i]],
                LAMBDA c : c # 256)

\* UTF-8 decoder: for a lead byte, <<bytes needed, lower and upper boundary of
\* the second byte, bits of the lead byte>>; needed 0 for a byte that is no lead
UTF8Lead(b) ==
  IF b \in 194..223 THEN <<1, 128, 191, b - 192>>
  ELSE IF b = 224 THEN <<2, 160, 191, 0>>
  ELSE IF b = 237 THEN <<2, 128, 159, 13>>
  ELSE IF b \in 225..239 THEN <<2, 128, 191, b - 224>>
  ELSE IF b = 240 THEN <<3, 144, 191, 0>>
  ELSE IF b = 244 THEN <<3, 128, 143, 4>>
  ELSE IF b \in 241..243 THEN <<3, 128, 191, b - 240>>
  ELSE <<0, 0, 0, 0>>

\* the continuation bytes from position p on of a sequence that needs needed
\* of them: the first within lo..hi, the others within 128..191
RECURSIVE Continuation(_, _, _, _, _)
Continuation(b, p, needed, lo, hi) ==
  IF needed = 0 \/ p > Len(b) \/ b[p] < lo \/ b[p] > hi THEN 0
  ELSE 1 + Continuation(b, p + 1, needed - 1, 128, 191)

RECURSIVE Accumulate(_, _, _, _)
Accumulate(b, p, count, value) ==
  IF count = 0 THEN value ELSE Accumulate(b, p + 1, count - 1, value * 64 + (b[p] - 128))

\* UTF-8 decoder: an ill-formed sequence decodes to U+FFFD.  A byte is taken
\* by the sequence of a lead byte up to 3 places before it when the
\* continuation bytes found for that lead byte reach it; every other byte
\* starts a sequence, complete when all the bytes it needs are found
UTF8Decode(b) ==
  LET Found(p) == Continuation(b, p + 1, UTF8Lead(b[p])[1], UTF8Lead(b[p])[2], UTF8Lead(b[p])[3])
      Taken(p) == \E k \in 1..3 : p - k >= 1 /\ Found(p - k) >= k
  IN  SelectSeq([p \in 1..Len(b) |->
                   IF Taken(p) THEN 1114112
                   ELSE IF b[p] < 128 THEN b[p]
                   ELSE IF UTF8Lead(b[p])[1] > 0 /\ Found(p) = UTF8Lead(b[p])[1]
                   THEN Accumulate(b, p + 1, Found(p), UTF8Lead(b[p])[4])
                   ELSE 65533],
                LAMBDA c : c # 1114112)

\* UTF-8 percent-encoding of a code point, with upper-case digits
PercentEncoded(n) ==
  Only([bytes \in {UTF8(n)} |->
    [i \in 1..(3 * Len(bytes)) |->
       IF i % 3 = 1 THEN 37
       ELSE LET d == IF i % 3 = 2 THEN bytes[(i + 2) \div 3] \div 16
                     ELSE bytes[(i + 2) \div 3] % 16
            IN  IF d < 10 THEN d + 48 ELSE d + 55]])

(***************************************************************************)
(* IPv4: a number is a record of its two 16-bit halves, high saturated at  *)
(* 65536, so that a part longer than 32 bits is told from one that fits.   *)
(***************************************************************************)
\* the digits at the positions lo to hi, read in order on top of the number
\* high, low; the digits are read one half after the other
RECURSIVE Number(_, _, _, _, _, _)
Number(digits, lo, hi, R, high, low) ==
  IF lo > hi THEN [failure |-> FALSE, high |-> high, low |-> low]
  ELSE IF lo = hi
  THEN LET l == low * R + DigitValue(digits[lo])
           h == high * R + (l \div 65536)
       IN  [failure |-> FALSE, high |-> IF h > 65536 THEN 65536 ELSE h, low |-> l % 65536]
  ELSE Only([half \in {Number(digits, lo, (lo + hi) \div 2, R, high, low)} |->
         Number(digits, ((lo + hi) \div 2) + 1, hi, R, half.high, half.low)])

\* IPv4 number parser
IPv4Number(part) ==
  LET hex    == Len(part) >= 2 /\ part[1] = 48 /\ part[2] \in {88, 120}
      octal  == ~hex /\ Len(part) >= 2 /\ part[1] = 48
      digits == IF hex THEN From(part, 3) ELSE IF octal THEN From(part, 2) ELSE part
      R      == IF hex THEN 16 ELSE IF octal THEN 8 ELSE 10
  IN  IF Len(part) = 0
         \/ \E i \in 1..Len(digits) : ~(IsHexDigit(digits[i]) /\ DigitValue(digits[i]) < R)
      THEN [failure |-> TRUE, high |-> 0, low |-> 0]
      ELSE Number(digits, 1, Len(digits), R, 0, 0)

\* the parts of a domain between dots, a trailing empty part dropped
IPv4Parts(u) ==
  Only([all \in {Split(u, 46)} |->
    IF Len(all) > 1 /\ all[Len(all)] = <<>> THEN SubSeq(all, 1, Len(all) - 1) ELSE all])

\* ends-in-a-number checker
EndsInNumber(u) ==
  Only([parts \in {IPv4Parts(u)} |->
    LET last == parts[Len(parts)]
    IN  \/ Len(last) > 0 /\ \A i \in 1..Len(last) : IsDigit(last[i])
        \/ ~IPv4Number(last).failure])

\* IPv4 parser and serialiser
IPv4Host(u) ==
  Only([parts \in {IPv4Parts(u)} |->
  Only([nums \in {[i \in 1..Len(parts) |-> IPv4Number(parts[i])]} |->
    LET size   == Len(parts)
        last   == nums[size]
        tooBig == IF size = 1 THEN last.high >= 65536
                  ELSE IF size = 2 THEN last.high >= 256
                  ELSE IF size = 3 THEN last.high >= 1
                  ELSE last.high >= 1 \/ last.low >= 256
        tail   == <<last.high \div 256, last.high % 256, last.low \div 256, last.low % 256>>
    IN  IF size > 4 THEN Failure
        ELSE IF \E i \in 1..size : nums[i].failure THEN Failure
        ELSE IF \E i \in 1..(size - 1) : nums[i].high > 0 \/ nums[i].low > 255 THEN Failure
        ELSE IF tooBig THEN Failure
        ELSE Host(Join([i \in 1..4 |->
                          Digits(IF i < size THEN nums[i].low ELSE tail[i], 10)], <<46>>))])])

(***************************************************************************)
(* IPv6: the address is a sequence of eight 16-bit pieces; idx counts the  *)
(* pieces parsed and compress is the number of pieces before "::", -1 when *)
(* there is no "::".                                                       *)
(***************************************************************************)
IPv6Failure == [failure |-> TRUE, address |-> <<>>, idx |-> 0, compress |-> 0]

\* the number that count digits of u from position p on write in radix R, on top
\* of value
RECURSIVE Piece(_, _, _, _, _)
Piece(u, p, count, R, value) ==
  IF count = 0 THEN value ELSE Piece(u, p + 1, count - 1, R, value * R + DigitValue(u[p]))

\* the dotted-decimal tail of an IPv6 address: seen numbers were read before p
RECURSIVE IPv6Dotted(_, _, _, _, _, _)
IPv6Dotted(u, p, address, idx, compress, seen) ==
  IF p > Len(u)
  THEN IF seen = 4
       THEN [failure |-> FALSE, address |-> address, idx |-> idx, compress |-> compress]
       ELSE IPv6Failure
  ELSE Only([q \in {IF seen = 0 THEN p ELSE p + 1} |->
       Only([n \in {RunLength(u, q, 48..57)} |->
       Only([value \in {Piece(u, q, n, 10, 0)} |->
         IF \/ ~(seen = 0 \/ (u[p] = 46 /\ seen < 4))
            \/ n = 0 \/ n > 3 \/ (n > 1 /\ u[q] = 48) \/ value > 255
         THEN IPv6Failure
         ELSE IPv6Dotted(u, q + n,
                         [address EXCEPT ![idx + 1] = address[idx + 1] * 256 + value],
                         IF seen + 1 \in {2, 4} THEN idx + 1 ELSE idx,
                         compress, seen + 1)])])])

\* the main loop of the IPv6 parser, at position p
RECURSIVE IPv6Pieces(_, _, _, _, _)
IPv6Pieces(u, p, address, idx, compress) ==
  IF p > Len(u)
  THEN [failure |-> FALSE, address |-> address, idx |-> idx, compress |-> compress]
  ELSE IF idx = 8 THEN IPv6Failure
  ELSE IF u[p] = 58
  THEN IF compress # 0 - 1 THEN IPv6Failure
       ELSE IPv6Pieces(u, p + 1, address, idx + 1, idx + 1)
  ELSE Only([full \in {RunLength(u, p, { n \in 48..102 : IsHexDigit(n) })} |->
         LET length == IF full > 4 THEN 4 ELSE full
             q      == p + length
             next   == At(u, q)
         IN  IF next = 46
             THEN IF length = 0 \/ idx > 6 THEN IPv6Failure
                  ELSE IPv6Dotted(u, p, address, idx, compress, 0)
             ELSE IF (next = 58 /\ q + 1 > Len(u)) \/ (next # 58 /\ q <= Len(u))
             THEN IPv6Failure
             ELSE IPv6Pieces(u, IF next = 58 THEN q + 1 ELSE q,
                             [address EXCEPT ![idx + 1] = Piece(u, p, length, 16, 0)],
                             idx + 1, compress)])

\* IPv6 parser: the eight pieces, or failure
IPv6Parse(u) ==
  Only([r \in {IF At(u, 1) # 58 THEN IPv6Pieces(u, 1, <<0, 0, 0, 0, 0, 0, 0, 0>>, 0, 0 - 1)
               ELSE IF At(u, 2) = 58 THEN IPv6Pieces(u, 3, <<0, 0, 0, 0, 0, 0, 0, 0>>, 1, 1)
               ELSE IPv6Failure} |->
    IF r.failure THEN r
    ELSE IF r.compress = 0 - 1
    THEN IF r.idx = 8 THEN r ELSE IPv6Failure
    ELSE [r EXCEPT !.address =
            SubSeq(r.address, 1, r.compress)
            \o [i \in 1..(8 - r.idx) |-> 0]
            \o SubSeq(r.address, r.compress + 1, r.idx)]])

\* IPv6 serialiser: the first longest run of two or more zero pieces is compressed
IPv6Serialise(address) ==
  Only([zeros \in {[i \in 1..8 |-> RunLength(address, i, {0})]} |->
  Only([longest \in {Greatest({ zeros[i] : i \in 1..8 })} |->
  Only([compress \in {IF longest < 2 THEN 0
                      ELSE Least({ i \in 1..8 : zeros[i] = longest })} |->
    Join([i \in 1..8 |->
            IF compress # 0 /\ i = compress THEN (IF i = 1 THEN <<58, 58>> ELSE <<58>>)
            ELSE IF compress # 0 /\ i > compress /\ i < compress + longest THEN <<>>
            ELSE Digits(address[i], 16) \o (IF i = 8 THEN <<>> ELSE <<58>>)], <<>>)])])])

(***************************************************************************)
(* Unicode Normalization Form C (UAX #15), which domain to ASCII applies   *)
(* to the mapped domain                                                    *)
(***************************************************************************)
\* the value a table gives n, default where n is in none of its ranges; the
\* rows are first, last, value
ValueIn(table, n, default) ==
  LET rows == { i \in 1..(Len(table) \div 3) : table[3 * i - 2] <= n /\ n <= table[3 * i - 1] }
  IN  IF rows = {} THEN default ELSE table[3 * Least(rows)]

\* Canonical_Combining_Class as the parser holds it, where it is not 0
CombiningClasses ==
  << 768,788,230,  789,789,232,  790,793,220,  794,794,232,  795,795,216,  796,800,220,
    801,802,202,  803,806,220,  807,808,202,  809,819,220,  820,824,1,  825,828,220,
    829,836,230,  837,837,240,  838,838,230,  839,841,220,  842,844,230,  845,846,220,
    848,850,230,  851,854,220,  855,855,230,  856,856,232,  857,858,220,  859,859,230,
    860,860,233,  861,862,234,  863,863,233,  864,865,234,  866,866,233,  867,879,230,
    1155,1159,230,  1425,1425,220,  1426,1429,230,  1430,1430,220,  1431,1433,230,
    1434,1434,222,  1435,1435,220,  1436,1441,230,  1442,1447,220,  1448,1449,230,
    1450,1450,220,  1451,1452,230,  1453,1453,222,  1454,1454,228,  1455,1455,230,
    1456,1456,10,  1457,1457,11,  1458,1458,12,  1459,1459,13,  1460,1460,14,  1461,1461,15,
    1462,1462,16,  1463,1463,17,  1464,1464,18,  1465,1466,19,  1467,1467,20,  1468,1468,21,
    1469,1469,22,  1471,1471,23,  1473,1473,24,  1474,1474,25,  1476,1476,230,  1477,1477,220,
    1479,1479,18,  1552,1559,230,  1560,1560,30,  1561,1561,31,  1562,1562,32,  1611,1611,27,
    1612,1612,28,  1613,1613,29,  1614,1614,30,  1615,1615,31,  1616,1616,32,  1617,1617,33,
    1618,1618,34,  1619,1620,230,  1621,1622,220,  1623,1627,230,  1628,1628,220,
    1629,1630,230,  1631,1631,220,  1648,1648,35,  1750,1756,230,  1759,1762,230,
    1763,1763,220,  1764,1764,230,  1767,1768,230,  1770,1770,220,  1771,1772,230,
    1773,1773,220,  1809,1809,36,  1840,1840,230,  1841,1841,220,  1842,1843,230,
    1844,1844,220,  1845,1846,230,  1847,1849,220,  1850,1850,230,  1851,1852,220,
    1853,1853,230,  1854,1854,220,  1855,1857,230,  1858,1858,220,  1859,1859,230,
    1860,1860,220,  1861,1861,230,  1862,1862,220,  1863,1863,230,  1864,1864,220,
    1865,1866,230,  2027,2033,230,  2034,2034,220,  2035,2035,230,  2045,2045,220,
    2070,2073,230,  2075,2083,230,  2085,2087,230,  2089,2093,230,  2137,2139,220,
    2200,2200,230,  2201,2203,220,  2204,2207,230,  2250,2254,230,  2255,2259,220,
    2260,2273,230,  2275,2275,220,  2276,2277,230,  2278,2278,220,  2279,2280,230,
    2281,2281,220,  2282,2284,230,  2285,2287,220,  2288,2288,27,  2289,2289,28,  2290,2290,29,
    2291,2293,230,  2294,2294,220,  2295,2296,230,  2297,2298,220,  2299,2303,230,  2364,2364,7,
    2381,2381,9,  2385,2385,230,  2386,2386,220,  2387,2388,230,  2492,2492,7,  2509,2509,9,
    2558,2558,230,  2620,2620,7,  2637,2637,9,  2748,2748,7,  2765,2765,9,  2876,2876,7,
    2893,2893,9,  3021,3021,9,  3132,3132,7,  3149,3149,9,  3157,3157,84,  3158,3158,91,
    3260,3260,7,  3277,3277,9,  3387,3388,9,  3405,3405,9,  3530,3530,9,  3640,3641,103,
    3642,3642,9,  3656,3659,107,  3768,3769,118,  3770,3770,9,  3784,3787,122,  3864,3865,220,
    3893,3893,220,  3895,3895,220,  3897,3897,216,  3953,3953,129,  3954,3954,130,
    3956,3956,132,  3962,3965,130,  3968,3968,130,  3970,3971,230,  3972,3972,9,  3974,3975,230,
    4038,4038,220,  4151,4151,7,  4153,4154,9,  4237,4237,220,  4957,4959,230,  5908,5909,9,
    5940,5940,9,  6098,6098,9,  6109,6109,230,  6313,6313,228,  6457,6457,222,  6458,6458,230,
    6459,6459,220,  6679,6679,230,  6680,6680,220,  6752,6752,9,  6773,6780,230,  6783,6783,220,
    6832,6836,230,  6837,6842,220,  6843,6844,230,  6845,6845,220,  6847,6848,220,
    6849,6850,230,  6851,6852,220,  6853,6857,230,  6858,6858,220,  6859,6862,230,  6964,6964,7,
    6980,6980,9,  7019,7019,230,  7020,7020,220,  7021,7027,230,  7082,7083,9,  7142,7142,7,
    7154,7155,9,  7223,7223,7,  7376,7378,230,  7380,7380,1,  7381,7385,220,  7386,7387,230,
    7388,7391,220,  7392,7392,230,  7394,7400,1,  7405,7405,220,  7412,7412,230,  7416,7417,230,
    7616,7617,230,  7618,7618,220,  7619,7625,230,  7626,7626,220,  7627,7628,230,
    7629,7629,234,  7630,7630,214,  7631,7631,220,  7632,7632,202,  7633,7669,230,
    7670,7670,232,  7671,7672,228,  7673,7673,220,  7674,7674,218,  7675,7675,230,
    7676,7676,233,  7677,7677,220,  7678,7678,230,  7679,7679,220,  8400,8401,230,  8402,8403,1,
    8404,8407,230,  8408,8410,1,  8411,8412,230,  8417,8417,230,  8421,8422,1,  8423,8423,230,
    8424,8424,220,  8425,8425,230,  8426,8427,1,  8428,8431,220,  8432,8432,230,
    11503,11505,230,  11647,11647,9,  11744,11775,230,  12330,12330,218,  12331,12331,228,
    12332,12332,232,  12333,12333,222,  12334,12335,224,  12441,12442,8,  42607,42607,230,
    42612,42621,230,  42654,42655,230,  42736,42737,230,  43014,43014,9,  43052,43052,9,
    43204,43204,9,  43232,43249,230,  43307,43309,220,  43347,43347,9,  43443,43443,7,
    43456,43456,9,  43696,43696,230,  43698,43699,230,  43700,43700,220,  43703,43704,230,
    43710,43711,230,  43713,43713,230,  43766,43766,9,  44013,44013,9,  64286,64286,26,
    65056,65062,230,  65063,65069,220,  65070,65071,230,  66045,66045,220,  66272,66272,220,
    66422,66426,230,  68109,68109,220,  68111,68111,230,  68152,68152,230,  68153,68153,1,
    68154,68154,220,  68159,68159,9,  68325,68325,230,  68326,68326,220,  68900,68903,230,
    69291,69292,230,  69373,69375,220,  69446,69447,220,  69448,69450,230,  69451,69451,220,
    69452,69452,230,  69453,69456,220,  69506,69506,230,  69507,69507,220,  69508,69508,230,
    69509,69509,220,  69702,69702,9,  69744,69744,9,  69759,69759,9,  69817,69817,9,
    69818,69818,7,  69888,69890,230,  69939,69940,9,  70003,70003,7,  70080,70080,9,
    70090,70090,7,  70197,70197,9,  70198,70198,7,  70377,70377,7,  70378,70378,9,
    70459,70460,7,  70477,70477,9,  70502,70508,230,  70512,70516,230,  70722,70722,9,
    70726,70726,7,  70750,70750,230,  70850,70850,9,  70851,70851,7,  71103,71103,9,
    71104,71104,7,  71231,71231,9,  71350,71350,9,  71351,71351,7,  71467,71467,9,
    71737,71737,9,  71738,71738,7,  71997,71998,9,  72003,72003,7,  72160,72160,9,
    72244,72244,9,  72263,72263,9,  72345,72345,9,  72767,72767,9,  73026,73026,7,
    73028,73029,9,  73111,73111,9,  73537,73538,9,  92912,92916,1,  92976,92982,230,
    94192,94193,6,  113822,113822,1,  119141,119142,216,  119143,119145,1,  119149,119149,226,
    119150,119154,216,  119163,119170,220,  119173,119177,230,  119178,119179,220,
    119210,119213,230,  119362,119364,230,  122880,122886,230,  122888,122904,230,
    122907,122913,230,  122915,122916,230,  122918,122922,230,  123023,123023,230,
    123184,123190,230,  123566,123566,230,  123628,123631,230,  124140,124141,232,
    124142,124142,220,  124143,124143,230,  125136,125142,220,  125252,125257,230,
    125258,125258,7 >>

\* full canonical decompositions: the code point and the up to 4 code points
\* of its decomposition; the Hangul syllables are decomposed by arithmetic
Decompositions ==
  << 192,65,768,0,0,  193,65,769,0,0,  194,65,770,0,0,  195,65,771,0,0,  196,65,776,0,0,
    197,65,778,0,0,  199,67,807,0,0,  200,69,768,0,0,  201,69,769,0,0,  202,69,770,0,0,
    203,69,776,0,0,  204,73,768,0,0,  205,73,769,0,0,  206,73,770,0,0,  207,73,776,0,0,
    209,78,771,0,0,  210,79,768,0,0,  211,79,769,0,0,  212,79,770,0,0,  213,79,771,0,0,
    214,79,776,0,0,  217,85,768,0,0,  218,85,769,0,0,  219,85,770,0,0,  220,85,776,0,0,
    221,89,769,0,0,  224,97,768,0,0,  225,97,769,0,0,  226,97,770,0,0,  227,97,771,0,0,
    228,97,776,0,0,  229,97,778,0,0,  231,99,807,0,0,  232,101,768,0,0,  233,101,769,0,0,
    234,101,770,0,0,  235,101,776,0,0,  236,105,768,0,0,  237,105,769,0,0,  238,105,770,0,0,
    239,105,776,0,0,  241,110,771,0,0,  242,111,768,0,0,  243,111,769,0,0,  244,111,770,0,0,
    245,111,771,0,0,  246,111,776,0,0,  249,117,768,0,0,  250,117,769,0,0,  251,117,770,0,0,
    252,117,776,0,0,  253,121,769,0,0,  255,121,776,0,0,  256,65,772,0,0,  257,97,772,0,0,
    258,65,774,0,0,  259,97,774,0,0,  260,65,808,0,0,  261,97,808,0,0,  262,67,769,0,0,
    263,99,769,0,0,  264,67,770,0,0,  265,99,770,0,0,  266,67,775,0,0,  267,99,775,0,0,
    268,67,780,0,0,  269,99,780,0,0,  270,68,780,0,0,  271,100,780,0,0,  274,69,772,0,0,
    275,101,772,0,0,  276,69,774,0,0,  277,101,774,0,0,  278,69,775,0,0,  279,101,775,0,0,
    280,69,808,0,0,  281,101,808,0,0,  282,69,780,0,0,  283,101,780,0,0,  284,71,770,0,0,
    285,103,770,0,0,  286,71,774,0,0,  287,103,774,0,0,  288,71,775,0,0,  289,103,775,0,0,
    290,71,807,0,0,  291,103,807,0,0,  292,72,770,0,0,  293,104,770,0,0,  296,73,771,0,0,
    297,105,771,0,0,  298,73,772,0,0,  299,105,772,0,0,  300,73,774,0,0,  301,105,774,0,0,
    302,73,808,0,0,  303,105,808,0,0,  304,73,775,0,0,  308,74,770,0,0,  309,106,770,0,0,
    310,75,807,0,0,  311,107,807,0,0,  313,76,769,0,0,  314,108,769,0,0,  315,76,807,0,0,
    316,108,807,0,0,  317,76,780,0,0,  318,108,780,0,0,  323,78,769,0,0,  324,110,769,0,0,
    325,78,807,0,0,  326,110,807,0,0,  327,78,780,0,0,  328,110,780,0,0,  332,79,772,0,0,
    333,111,772,0,0,  334,79,774,0,0,  335,111,774,0,0,  336,79,779,0,0,  337,111,779,0,0,
    340,82,769,0,0,  341,114,769,0,0,  342,82,807,0,0,  343,114,807,0,0,  344,82,780,0,0,
    345,114,780,0,0,  346,83,769,0,0,  347,115,769,0,0,  348,83,770,0,0,  349,115,770,0,0,
    350,83,807,0,0,  351,115,807,0,0,  352,83,780,0,0,  353,115,780,0,0,  354,84,807,0,0,
    355,116,807,0,0,  356,84,780,0,0,  357,116,780,0,0,  360,85,771,0,0,  361,117,771,0,0,
    362,85,772,0,0,  363,117,772,0,0,  364,85,774,0,0,  365,117,774,0,0,  366,85,778,0,0,
    367,117,778,0,0,  368,85,779,0,0,  369,117,779,0,0,  370,85,808,0,0,  371,117,808,0,0,
    372,87,770,0,0,  373,119,770,0,0,  374,89,770,0,0,  375,121,770,0,0,  376,89,776,0,0,
    377,90,769,0,0,  378,122,769,0,0,  379,90,775,0,0,  380,122,775,0,0,  381,90,780,0,0,
    382,122,780,0,0,  416,79,795,0,0,  417,111,795,0,0,  431,85,795,0,0,  432,117,795,0,0,
    461,65,780,0,0,  462,97,780,0,0,  463,73,780,0,0,  464,105,780,0,0,  465,79,780,0,0,
    466,111,780,0,0,  467,85,780,0,0,  468,117,780,0,0,  469,85,776,772,0,  470,117,776,772,0,
    471,85,776,769,0,  472,117,776,769,0,  473,85,776,780,0,  474,117,776,780,0,
    475,85,776,768,0,  476,117,776,768,0,  478,65,776,772,0,  479,97,776,772,0,
    480,65,775,772,0,  481,97,775,772,0,  482,198,772,0,0,  483,230,772,0,0,  486,71,780,0,0,
    487,103,780,0,0,  488,75,780,0,0,  489,107,780,0,0,  490,79,808,0,0,  491,111,808,0,0,
    492,79,808,772,0,  493,111,808,772,0,  494,439,780,0,0,  495,658,780,0,0,  496,106,780,0,0,
    500,71,769,0,0,  501,103,769,0,0,  504,78,768,0,0,  505,110,768,0,0,  506,65,778,769,0,
    507,97,778,769,0,  508,198,769,0,0,  509,230,769,0,0,  510,216,769,0,0,  511,248,769,0,0,
    512,65,783,0,0,  513,97,783,0,0,  514,65,785,0,0,  515,97,785,0,0,  516,69,783,0,0,
    517,101,783,0,0,  518,69,785,0,0,  519,101,785,0,0,  520,73,783,0,0,  521,105,783,0,0,
    522,73,785,0,0,  523,105,785,0,0,  524,79,783,0,0,  525,111,783,0,0,  526,79,785,0,0,
    527,111,785,0,0,  528,82,783,0,0,  529,114,783,0,0,  530,82,785,0,0,  531,114,785,0,0,
    532,85,783,0,0,  533,117,783,0,0,  534,85,785,0,0,  535,117,785,0,0,  536,83,806,0,0,
    537,115,806,0,0,  538,84,806,0,0,  539,116,806,0,0,  542,72,780,0,0,  543,104,780,0,0,
    550,65,775,0,0,  551,97,775,0,0,  552,69,807,0,0,  553,101,807,0,0,  554,79,776,772,0,
    555,111,776,772,0,  556,79,771,772,0,  557,111,771,772,0,  558,79,775,0,0,  559,111,775,0,0,
    560,79,775,772,0,  561,111,775,772,0,  562,89,772,0,0,  563,121,772,0,0,  832,768,0,0,0,
    833,769,0,0,0,  835,787,0,0,0,  836,776,769,0,0,  884,697,0,0,0,  894,59,0,0,0,
    901,168,769,0,0,  902,913,769,0,0,  903,183,0,0,0,  904,917,769,0,0,  905,919,769,0,0,
    906,921,769,0,0,  908,927,769,0,0,  910,933,769,0,0,  911,937,769,0,0,  912,953,776,769,0,
    938,921,776,0,0,  939,933,776,0,0,  940,945,769,0,0,  941,949,769,0,0,  942,951,769,0,0,
    943,953,769,0,0,  944,965,776,769,0,  970,953,776,0,0,  971,965,776,0,0,  972,959,769,0,0,
    973,965,769,0,0,  974,969,769,0,0,  979,978,769,0,0,  980,978,776,0,0,  1024,1045,768,0,0,
    1025,1045,776,0,0,  1027,1043,769,0,0,  1031,1030,776,0,0,  1036,1050,769,0,0,
    1037,1048,768,0,0,  1038,1059,774,0,0,  1049,1048,774,0,0,  1081,1080,774,0,0,
    1104,1077,768,0,0,  1105,1077,776,0,0,  1107,1075,769,0,0,  1111,1110,776,0,0,
    1116,1082,769,0,0,  1117,1080,768,0,0,  1118,1091,774,0,0,  1142,1140,783,0,0,
    1143,1141,783,0,0,  1217,1046,774,0,0,  1218,1078,774,0,0,  1232,1040,774,0,0,
    1233,1072,774,0,0,  1234,1040,776,0,0,  1235,1072,776,0,0,  1238,1045,774,0,0,
    1239,1077,774,0,0,  1242,1240,776,0,0,  1243,1241,776,0,0,  1244,1046,776,0,0,
    1245,1078,776,0,0,  1246,1047,776,0,0,  1247,1079,776,0,0,  1250,1048,772,0,0,
    1251,1080,772,0,0,  1252,1048,776,0,0,  1253,1080,776,0,0,  1254,1054,776,0,0,
    1255,1086,776,0,0,  1258,1256,776,0,0,  1259,1257,776,0,0,  1260,1069,776,0,0,
    1261,1101,776,0,0,  1262,1059,772,0,0,  1263,1091,772,0,0,  1264,1059,776,0,0,
    1265,1091,776,0,0,  1266,1059,779,0,0,  1267,1091,779,0,0,  1268,1063,776,0,0,
    1269,1095,776,0,0,  1272,1067,776,0,0,  1273,1099,776,0,0,  1570,1575,1619,0,0,
    1571,1575,1620,0,0,  1572,1608,1620,0,0,  1573,1575,1621,0,0,  1574,1610,1620,0,0,
    1728,1749,1620,0,0,  1730,1729,1620,0,0,  1747,1746,1620,0,0,  2345,2344,2364,0,0,
    2353,2352,2364,0,0,  2356,2355,2364,0,0,  2392,2325,2364,0,0,  2393,2326,2364,0,0,
    2394,2327,2364,0,0,  2395,2332,2364,0,0,  2396,2337,2364,0,0,  2397,2338,2364,0,0,
    2398,2347,2364,0,0,  2399,2351,2364,0,0,  2507,2503,2494,0,0,  2508,2503,2519,0,0,
    2524,2465,2492,0,0,  2525,2466,2492,0,0,  2527,2479,2492,0,0,  2611,2610,2620,0,0,
    2614,2616,2620,0,0,  2649,2582,2620,0,0,  2650,2583,2620,0,0,  2651,2588,2620,0,0,
    2654,2603,2620,0,0,  2888,2887,2902,0,0,  2891,2887,2878,0,0,  2892,2887,2903,0,0,
    2908,2849,2876,0,0,  2909,2850,2876,0,0,  2964,2962,3031,0,0,  3018,3014,3006,0,0,
    3019,3015,3006,0,0,  3020,3014,3031,0,0,  3144,3142,3158,0,0,  3264,3263,3285,0,0,
    3271,3270,3285,0,0,  3272,3270,3286,0,0,  3274,3270,3266,0,0,  3275,3270,3266,3285,0,
    3402,3398,3390,0,0,  3403,3399,3390,0,0,  3404,3398,3415,0,0,  3546,3545,3530,0,0,
    3548,3545,3535,0,0,  3549,3545,3535,3530,0,  3550,3545,3551,0,0,  3907,3906,4023,0,0,
    3917,3916,4023,0,0,  3922,3921,4023,0,0,  3927,3926,4023,0,0,  3932,3931,4023,0,0,
    3945,3904,4021,0,0,  3955,3953,3954,0,0,  3957,3953,3956,0,0,  3958,4018,3968,0,0,
    3960,4019,3968,0,0,  3969,3953,3968,0,0,  3987,3986,4023,0,0,  3997,3996,4023,0,0,
    4002,4001,4023,0,0,  4007,4006,4023,0,0,  4012,4011,4023,0,0,  4025,3984,4021,0,0,
    4134,4133,4142,0,0,  6918,6917,6965,0,0,  6920,6919,6965,0,0,  6922,6921,6965,0,0,
    6924,6923,6965,0,0,  6926,6925,6965,0,0,  6930,6929,6965,0,0,  6971,6970,6965,0,0,
    6973,6972,6965,0,0,  6976,6974,6965,0,0,  6977,6975,6965,0,0,  6979,6978,6965,0,0,
    7680,65,805,0,0,  7681,97,805,0,0,  7682,66,775,0,0,  7683,98,775,0,0,  7684,66,803,0,0,
    7685,98,803,0,0,  7686,66,817,0,0,  7687,98,817,0,0,  7688,67,807,769,0,  7689,99,807,769,0,
    7690,68,775,0,0,  7691,100,775,0,0,  7692,68,803,0,0,  7693,100,803,0,0,  7694,68,817,0,0,
    7695,100,817,0,0,  7696,68,807,0,0,  7697,100,807,0,0,  7698,68,813,0,0,  7699,100,813,0,0,
    7700,69,772,768,0,  7701,101,772,768,0,  7702,69,772,769,0,  7703,101,772,769,0,
    7704,69,813,0,0,  7705,101,813,0,0,  7706,69,816,0,0,  7707,101,816,0,0,  7708,69,807,774,0,
    7709,101,807,774,0,  7710,70,775,0,0,  7711,102,775,0,0,  7712,71,772,0,0,
    7713,103,772,0,0,  7714,72,775,0,0,  7715,104,775,0,0,  7716,72,803,0,0,  7717,104,803,0,0,
    7718,72,776,0,0,  7719,104,776,0,0,  7720,72,807,0,0,  7721,104,807,0,0,  7722,72,814,0,0,
    7723,104,814,0,0,  7724,73,816,0,0,  7725,105,816,0,0,  7726,73,776,769,0,
    7727,105,776,769,0,  7728,75,769,0,0,  7729,107,769,0,0,  7730,75,803,0,0,
    7731,107,803,0,0,  7732,75,817,0,0,  7733,107,817,0,0,  7734,76,803,0,0,  7735,108,803,0,0,
    7736,76,803,772,0,  7737,108,803,772,0,  7738,76,817,0,0,  7739,108,817,0,0,
    7740,76,813,0,0,  7741,108,813,0,0,  7742,77,769,0,0,  7743,109,769,0,0,  7744,77,775,0,0,
    7745,109,775,0,0,  7746,77,803,0,0,  7747,109,803,0,0,  7748,78,775,0,0,  7749,110,775,0,0,
    7750,78,803,0,0,  7751,110,803,0,0,  7752,78,817,0,0,  7753,110,817,0,0,  7754,78,813,0,0,
    7755,110,813,0,0,  7756,79,771,769,0,  7757,111,771,769,0,  7758,79,771,776,0,
    7759,111,771,776,0,  7760,79,772,768,0,  7761,111,772,768,0,  7762,79,772,769,0,
    7763,111,772,769,0,  7764,80,769,0,0,  7765,112,769,0,0,  7766,80,775,0,0,
    7767,112,775,0,0,  7768,82,775,0,0,  7769,114,775,0,0,  7770,82,803,0,0,  7771,114,803,0,0,
    7772,82,803,772,0,  7773,114,803,772,0,  7774,82,817,0,0,  7775,114,817,0,0,
    7776,83,775,0,0,  7777,115,775,0,0,  7778,83,803,0,0,  7779,115,803,0,0,  7780,83,769,775,0,
    7781,115,769,775,0,  7782,83,780,775,0,  7783,115,780,775,0,  7784,83,803,775,0,
    7785,115,803,775,0,  7786,84,775,0,0,  7787,116,775,0,0,  7788,84,803,0,0,
    7789,116,803,0,0,  7790,84,817,0,0,  7791,116,817,0,0,  7792,84,813,0,0,  7793,116,813,0,0,
    7794,85,804,0,0,  7795,117,804,0,0,  7796,85,816,0,0,  7797,117,816,0,0,  7798,85,813,0,0,
    7799,117,813,0,0,  7800,85,771,769,0,  7801,117,771,769,0,  7802,85,772,776,0,
    7803,117,772,776,0,  7804,86,771,0,0,  7805,118,771,0,0,  7806,86,803,0,0,
    7807,118,803,0,0,  7808,87,768,0,0,  7809,119,768,0,0,  7810,87,769,0,0,  7811,119,769,0,0,
    7812,87,776,0,0,  7813,119,776,0,0,  7814,87,775,0,0,  7815,119,775,0,0,  7816,87,803,0,0,
    7817,119,803,0,0,  7818,88,775,0,0,  7819,120,775,0,0,  7820,88,776,0,0,  7821,120,776,0,0,
    7822,89,775,0,0,  7823,121,775,0,0,  7824,90,770,0,0,  7825,122,770,0,0,  7826,90,803,0,0,
    7827,122,803,0,0,  7828,90,817,0,0,  7829,122,817,0,0,  7830,104,817,0,0,  7831,116,776,0,0,
    7832,119,778,0,0,  7833,121,778,0,0,  7835,383,775,0,0,  7840,65,803,0,0,  7841,97,803,0,0,
    7842,65,777,0,0,  7843,97,777,0,0,  7844,65,770,769,0,  7845,97,770,769,0,
    7846,65,770,768,0,  7847,97,770,768,0,  7848,65,770,777,0,  7849,97,770,777,0,
    7850,65,770,771,0,  7851,97,770,771,0,  7852,65,803,770,0,  7853,97,803,770,0,
    7854,65,774,769,0,  7855,97,774,769,0,  7856,65,774,768,0,  7857,97,774,768,0,
    7858,65,774,777,0,  7859,97,774,777,0,  7860,65,774,771,0,  7861,97,774,771,0,
    7862,65,803,774,0,  7863,97,803,774,0,  7864,69,803,0,0,  7865,101,803,0,0,
    7866,69,777,0,0,  7867,101,777,0,0,  7868,69,771,0,0,  7869,101,771,0,0,  7870,69,770,769,0,
    7871,101,770,769,0,  7872,69,770,768,0,  7873,101,770,768,0,  7874,69,770,777,0,
    7875,101,770,777,0,  7876,69,770,771,0,  7877,101,770,771,0,  7878,69,803,770,0,
    7879,101,803,770,0,  7880,73,777,0,0,  7881,105,777,0,0,  7882,73,803,0,0,
    7883,105,803,0,0,  7884,79,803,0,0,  7885,111,803,0,0,  7886,79,777,0,0,  7887,111,777,0,0,
    7888,79,770,769,0,  7889,111,770,769,0,  7890,79,770,768,0,  7891,111,770,768,0,
    7892,79,770,777,0,  7893,111,770,777,0,  7894,79,770,771,0,  7895,111,770,771,0,
    7896,79,803,770,0,  7897,111,803,770,0,  7898,79,795,769,0,  7899,111,795,769,0,
    7900,79,795,768,0,  7901,111,795,768,0,  7902,79,795,777,0,  7903,111,795,777,0,
    7904,79,795,771,0,  7905,111,795,771,0,  7906,79,795,803,0,  7907,111,795,803,0,
    7908,85,803,0,0,  7909,117,803,0,0,  7910,85,777,0,0,  7911,117,777,0,0,  7912,85,795,769,0,
    7913,117,795,769,0,  7914,85,795,768,0,  7915,117,795,768,0,  7916,85,795,777,0,
    7917,117,795,777,0,  7918,85,795,771,0,  7919,117,795,771,0,  7920,85,795,803,0,
    7921,117,795,803,0,  7922,89,768,0,0,  7923,121,768,0,0,  7924,89,803,0,0,
    7925,121,803,0,0,  7926,89,777,0,0,  7927,121,777,0,0,  7928,89,771,0,0,  7929,121,771,0,0,
    7936,945,787,0,0,  7937,945,788,0,0,  7938,945,787,768,0,  7939,945,788,768,0,
    7940,945,787,769,0,  7941,945,788,769,0,  7942,945,787,834,0,  7943,945,788,834,0,
    7944,913,787,0,0,  7945,913,788,0,0,  7946,913,787,768,0,  7947,913,788,768,0,
    7948,913,787,769,0,  7949,913,788,769,0,  7950,913,787,834,0,  7951,913,788,834,0,
    7952,949,787,0,0,  7953,949,788,0,0,  7954,949,787,768,0,  7955,949,788,768,0,
    7956,949,787,769,0,  7957,949,788,769,0,  7960,917,787,0,0,  7961,917,788,0,0,
    7962,917,787,768,0,  7963,917,788,768,0,  7964,917,787,769,0,  7965,917,788,769,0,
    7968,951,787,0,0,  7969,951,788,0,0,  7970,951,787,768,0,  7971,951,788,768,0,
    7972,951,787,769,0,  7973,951,788,769,0,  7974,951,787,834,0,  7975,951,788,834,0,
    7976,919,787,0,0,  7977,919,788,0,0,  7978,919,787,768,0,  7979,919,788,768,0,
    7980,919,787,769,0,  7981,919,788,769,0,  7982,919,787,834,0,  7983,919,788,834,0,
    7984,953,787,0,0,  7985,953,788,0,0,  7986,953,787,768,0,  7987,953,788,768,0,
    7988,953,787,769,0,  7989,953,788,769,0,  7990,953,787,834,0,  7991,953,788,834,0,
    7992,921,787,0,0,  7993,921,788,0,0,  7994,921,787,768,0,  7995,921,788,768,0,
    7996,921,787,769,0,  7997,921,788,769,0,  7998,921,787,834,0,  7999,921,788,834,0,
    8000,959,787,0,0,  8001,959,788,0,0,  8002,959,787,768,0,  8003,959,788,768,0,
    8004,959,787,769,0,  8005,959,788,769,0,  8008,927,787,0,0,  8009,927,788,0,0,
    8010,927,787,768,0,  8011,927,788,768,0,  8012,927,787,769,0,  8013,927,788,769,0,
    8016,965,787,0,0,  8017,965,788,0,0,  8018,965,787,768,0,  8019,965,788,768,0,
    8020,965,787,769,0,  8021,965,788,769,0,  8022,965,787,834,0,  8023,965,788,834,0,
    8025,933,788,0,0,  8027,933,788,768,0,  8029,933,788,769,0,  8031,933,788,834,0,
    8032,969,787,0,0,  8033,969,788,0,0,  8034,969,787,768,0,  8035,969,788,768,0,
    8036,969,787,769,0,  8037,969,788,769,0,  8038,969,787,834,0,  8039,969,788,834,0,
    8040,937,787,0,0,  8041,937,788,0,0,  8042,937,787,768,0,  8043,937,788,768,0,
    8044,937,787,769,0,  8045,937,788,769,0,  8046,937,787,834,0,  8047,937,788,834,0,
    8048,945,768,0,0,  8049,945,769,0,0,  8050,949,768,0,0,  8051,949,769,0,0,
    8052,951,768,0,0,  8053,951,769,0,0,  8054,953,768,0,0,  8055,953,769,0,0,
    8056,959,768,0,0,  8057,959,769,0,0,  8058,965,768,0,0,  8059,965,769,0,0,
    8060,969,768,0,0,  8061,969,769,0,0,  8064,945,787,837,0,  8065,945,788,837,0,
    8066,945,787,768,837,  8067,945,788,768,837,  8068,945,787,769,837,  8069,945,788,769,837,
    8070,945,787,834,837,  8071,945,788,834,837,  8072,913,787,837,0,  8073,913,788,837,0,
    8074,913,787,768,837,  8075,913,788,768,837,  8076,913,787,769,837,  8077,913,788,769,837,
    8078,913,787,834,837,  8079,913,788,834,837,  8080,951,787,837,0,  8081,951,788,837,0,
    8082,951,787,768,837,  8083,951,788,768,837,  8084,951,787,769,837,  8085,951,788,769,837,
    8086,951,787,834,837,  8087,951,788,834,837,  8088,919,787,837,0,  8089,919,788,837,0,
    8090,919,787,768,837,  8091,919,788,768,837,  8092,919,787,769,837,  8093,919,788,769,837,
    8094,919,787,834,837,  8095,919,788,834,837,  8096,969,787,837,0,  8097,969,788,837,0,
    8098,969,787,768,837,  8099,969,788,768,837,  8100,969,787,769,837,  8101,969,788,769,837,
    8102,969,787,834,837,  8103,969,788,834,837,  8104,937,787,837,0,  8105,937,788,837,0,
    8106,937,787,768,837,  8107,937,788,768,837,  8108,937,787,769,837,  8109,937,788,769,837,
    8110,937,787,834,837,  8111,937,788,834,837,  8112,945,774,0,0,  8113,945,772,0,0,
    8114,945,768,837,0,  8115,945,837,0,0,  8116,945,769,837,0,  8118,945,834,0,0,
    8119,945,834,837,0,  8120,913,774,0,0,  8121,913,772,0,0,  8122,913,768,0,0,
    8123,913,769,0,0,  8124,913,837,0,0,  8126,953,0,0,0,  8129,168,834,0,0,
    8130,951,768,837,0,  8131,951,837,0,0,  8132,951,769,837,0,  8134,951,834,0,0,
    8135,951,834,837,0,  8136,917,768,0,0,  8137,917,769,0,0,  8138,919,768,0,0,
    8139,919,769,0,0,  8140,919,837,0,0,  8141,8127,768,0,0,  8142,8127,769,0,0,
    8143,8127,834,0,0,  8144,953,774,0,0,  8145,953,772,0,0,  8146,953,776,768,0,
    8147,953,776,769,0,  8150,953,834,0,0,  8151,953,776,834,0,  8152,921,774,0,0,
    8153,921,772,0,0,  8154,921,768,0,0,  8155,921,769,0,0,  8157,8190,768,0,0,
    8158,8190,769,0,0,  8159,8190,834,0,0,  8160,965,774,0,0,  8161,965,772,0,0,
    8162,965,776,768,0,  8163,965,776,769,0,  8164,961,787,0,0,  8165,961,788,0,0,
    8166,965,834,0,0,  8167,965,776,834,0,  8168,933,774,0,0,  8169,933,772,0,0,
    8170,933,768,0,0,  8171,933,769,0,0,  8172,929,788,0,0,  8173,168,768,0,0,
    8174,168,769,0,0,  8175,96,0,0,0,  8178,969,768,837,0,  8179,969,837,0,0,
    8180,969,769,837,0,  8182,969,834,0,0,  8183,969,834,837,0,  8184,927,768,0,0,
    8185,927,769,0,0,  8186,937,768,0,0,  8187,937,769,0,0,  8188,937,837,0,0,  8189,180,0,0,0,
    8192,8194,0,0,0,  8193,8195,0,0,0,  8486,937,0,0,0,  8490,75,0,0,0,  8491,65,778,0,0,
    8602,8592,824,0,0,  8603,8594,824,0,0,  8622,8596,824,0,0,  8653,8656,824,0,0,
    8654,8660,824,0,0,  8655,8658,824,0,0,  8708,8707,824,0,0,  8713,8712,824,0,0,
    8716,8715,824,0,0,  8740,8739,824,0,0,  8742,8741,824,0,0,  8769,8764,824,0,0,
    8772,8771,824,0,0,  8775,8773,824,0,0,  8777,8776,824,0,0,  8800,61,824,0,0,
    8802,8801,824,0,0,  8813,8781,824,0,0,  8814,60,824,0,0,  8815,62,824,0,0,
    8816,8804,824,0,0,  8817,8805,824,0,0,  8820,8818,824,0,0,  8821,8819,824,0,0,
    8824,8822,824,0,0,  8825,8823,824,0,0,  8832,8826,824,0,0,  8833,8827,824,0,0,
    8836,8834,824,0,0,  8837,8835,824,0,0,  8840,8838,824,0,0,  8841,8839,824,0,0,
    8876,8866,824,0,0,  8877,8872,824,0,0,  8878,8873,824,0,0,  8879,8875,824,0,0,
    8928,8828,824,0,0,  8929,8829,824,0,0,  8930,8849,824,0,0,  8931,8850,824,0,0,
    8938,8882,824,0,0,  8939,8883,824,0,0,  8940,8884,824,0,0,  8941,8885,824,0,0,
    9001,12296,0,0,0,  9002,12297,0,0,0,  10972,10973,824,0,0,  12364,12363,12441,0,0,
    12366,12365,12441,0,0,  12368,12367,12441,0,0,  12370,12369,12441,0,0,
    12372,12371,12441,0,0,  12374,12373,12441,0,0,  12376,12375,12441,0,0,
    12378,12377,12441,0,0,  12380,12379,12441,0,0,  12382,12381,12441,0,0,
    12384,12383,12441,0,0,  12386,12385,12441,0,0,  12389,12388,12441,0,0,
    12391,12390,12441,0,0,  12393,12392,12441,0,0,  12400,12399,12441,0,0,
    12401,12399,12442,0,0,  12403,12402,12441,0,0,  12404,12402,12442,0,0,
    12406,12405,12441,0,0,  12407,12405,12442,0,0,  12409,12408,12441,0,0,
    12410,12408,12442,0,0,  12412,12411,12441,0,0,  12413,12411,12442,0,0,
    12436,12358,12441,0,0,  12446,12445,12441,0,0,  12460,12459,12441,0,0,
    12462,12461,12441,0,0,  12464,12463,12441,0,0,  12466,12465,12441,0,0,
    12468,12467,12441,0,0,  12470,12469,12441,0,0,  12472,12471,12441,0,0,
    12474,12473,12441,0,0,  12476,12475,12441,0,0,  12478,12477,12441,0,0,
    12480,12479,12441,0,0,  12482,12481,12441,0,0,  12485,12484,12441,0,0,
    12487,12486,12441,0,0,  12489,12488,12441,0,0,  12496,12495,12441,0,0,
    12497,12495,12442,0,0,  12499,12498,12441,0,0,  12500,12498,12442,0,0,
    12502,12501,12441,0,0,  12503,12501,12442,0,0,  12505,12504,12441,0,0,
    12506,12504,12442,0,0,  12508,12507,12441,0,0,  12509,12507,12442,0,0,
    12532,12454,12441,0,0,  12535,12527,12441,0,0,  12536,12528,12441,0,0,
    12537,12529,12441,0,0,  12538,12530,12441,0,0,  12542,12541,12441,0,0,  63744,35912,0,0,0,
    63745,26356,0,0,0,  63746,36554,0,0,0,  63747,36040,0,0,0,  63748,28369,0,0,0,
    63749,20018,0,0,0,  63750,21477,0,0,0,  63751,40860,0,0,0,  63752,40860,0,0,0,
    63753,22865,0,0,0,  63754,37329,0,0,0,  63755,21895,0,0,0,  63756,22856,0,0,0,
    63757,25078,0,0,0,  63758,30313,0,0,0,  63759,32645,0,0,0,  63760,34367,0,0,0,
    63761,34746,0,0,0,  63762,35064,0,0,0,  63763,37007,0,0,0,  63764,27138,0,0,0,
    63765,27931,0,0,0,  63766,28889,0,0,0,  63767,29662,0,0,0,  63768,33853,0,0,0,
    63769,37226,0,0,0,  63770,39409,0,0,0,  63771,20098,0,0,0,  63772,21365,0,0,0,
    63773,27396,0,0,0,  63774,29211,0,0,0,  63775,34349,0,0,0,  63776,40478,0,0,0,
    63777,23888,0,0,0,  63778,28651,0,0,0,  63779,34253,0,0,0,  63780,35172,0,0,0,
    63781,25289,0,0,0,  63782,33240,0,0,0,  63783,34847,0,0,0,  63784,24266,0,0,0,
    63785,26391,0,0,0,  63786,28010,0,0,0,  63787,29436,0,0,0,  63788,37070,0,0,0,
    63789,20358,0,0,0,  63790,20919,0,0,0,  63791,21214,0,0,0,  63792,25796,0,0,0,
    63793,27347,0,0,0,  63794,29200,0,0,0,  63795,30439,0,0,0,  63796,32769,0,0,0,
    63797,34310,0,0,0,  63798,34396,0,0,0,  63799,36335,0,0,0,  63800,38706,0,0,0,
    63801,39791,0,0,0,  63802,40442,0,0,0,  63803,30860,0,0,0,  63804,31103,0,0,0,
    63805,32160,0,0,0,  63806,33737,0,0,0,  63807,37636,0,0,0,  63808,40575,0,0,0,
    63809,35542,0,0,0,  63810,22751,0,0,0,  63811,24324,0,0,0,  63812,31840,0,0,0,
    63813,32894,0,0,0,  63814,29282,0,0,0,  63815,30922,0,0,0,  63816,36034,0,0,0,
    63817,38647,0,0,0,  63818,22744,0,0,0,  63819,23650,0,0,0,  63820,27155,0,0,0,
    63821,28122,0,0,0,  63822,28431,0,0,0,  63823,32047,0,0,0,  63824,32311,0,0,0,
    63825,38475,0,0,0,  63826,21202,0,0,0,  63827,32907,0,0,0,  63828,20956,0,0,0,
    63829,20940,0,0,0,  63830,31260,0,0,0,  63831,32190,0,0,0,  63832,33777,0,0,0,
    63833,38517,0,0,0,  63834,35712,0,0,0,  63835,25295,0,0,0,  63836,27138,0,0,0,
    63837,35582,0,0,0,  63838,20025,0,0,0,  63839,23527,0,0,0,  63840,24594,0,0,0,
    63841,29575,0,0,0,  63842,30064,0,0,0,  63843,21271,0,0,0,  63844,30971,0,0,0,
    63845,20415,0,0,0,  63846,24489,0,0,0,  63847,19981,0,0,0,  63848,27852,0,0,0,
    63849,25976,0,0,0,  63850,32034,0,0,0,  63851,21443,0,0,0,  63852,22622,0,0,0,
    63853,30465,0,0,0,  63854,33865,0,0,0,  63855,35498,0,0,0,  63856,27578,0,0,0,
    63857,36784,0,0,0,  63858,27784,0,0,0,  63859,25342,0,0,0,  63860,33509,0,0,0,
    63861,25504,0,0,0,  63862,30053,0,0,0,  63863,20142,0,0,0,  63864,20841,0,0,0,
    63865,20937,0,0,0,  63866,26753,0,0,0,  63867,31975,0,0,0,  63868,33391,0,0,0,
    63869,35538,0,0,0,  63870,37327,0,0,0,  63871,21237,0,0,0,  63872,21570,0,0,0,
    63873,22899,0,0,0,  63874,24300,0,0,0,  63875,26053,0,0,0,  63876,28670,0,0,0,
    63877,31018,0,0,0,  63878,38317,0,0,0,  63879,39530,0,0,0,  63880,40599,0,0,0,
    63881,40654,0,0,0,  63882,21147,0,0,0,  63883,26310,0,0,0,  63884,27511,0,0,0,
    63885,36706,0,0,0,  63886,24180,0,0,0,  63887,24976,0,0,0,  63888,25088,0,0,0,
    63889,25754,0,0,0,  63890,28451,0,0,0,  63891,29001,0,0,0,  63892,29833,0,0,0,
    63893,31178,0,0,0,  63894,32244,0,0,0,  63895,32879,0,0,0,  63896,36646,0,0,0,
    63897,34030,0,0,0,  63898,36899,0,0,0,  63899,37706,0,0,0,  63900,21015,0,0,0,
    63901,21155,0,0,0,  63902,21693,0,0,0,  63903,28872,0,0,0,  63904,35010,0,0,0,
    63905,35498,0,0,0,  63906,24265,0,0,0,  63907,24565,0,0,0,  63908,25467,0,0,0,
    63909,27566,0,0,0,  63910,31806,0,0,0,  63911,29557,0,0,0,  63912,20196,0,0,0,
    63913,22265,0,0,0,  63914,23527,0,0,0,  63915,23994,0,0,0,  63916,24604,0,0,0,
    63917,29618,0,0,0,  63918,29801,0,0,0,  63919,32666,0,0,0,  63920,32838,0,0,0,
    63921,37428,0,0,0,  63922,38646,0,0,0,  63923,38728,0,0,0,  63924,38936,0,0,0,
    63925,20363,0,0,0,  63926,31150,0,0,0,  63927,37300,0,0,0,  63928,38584,0,0,0,
    63929,24801,0,0,0,  63930,20102,0,0,0,  63931,20698,0,0,0,  63932,23534,0,0,0,
    63933,23615,0,0,0,  63934,26009,0,0,0,  63935,27138,0,0,0,  63936,29134,0,0,0,
    63937,30274,0,0,0,  63938,34044,0,0,0,  63939,36988,0,0,0,  63940,40845,0,0,0,
    63941,26248,0,0,0,  63942,38446,0,0,0,  63943,21129,0,0,0,  63944,26491,0,0,0,
    63945,26611,0,0,0,  63946,27969,0,0,0,  63947,28316,0,0,0,  63948,29705,0,0,0,
    63949,30041,0,0,0,  63950,30827,0,0,0,  63951,32016,0,0,0,  63952,39006,0,0,0,
    63953,20845,0,0,0,  63954,25134,0,0,0,  63955,38520,0,0,0,  63956,20523,0,0,0,
    63957,23833,0,0,0,  63958,28138,0,0,0,  63959,36650,0,0,0,  63960,24459,0,0,0,
    63961,24900,0,0,0,  63962,26647,0,0,0,  63963,29575,0,0,0,  63964,38534,0,0,0,
    63965,21033,0,0,0,  63966,21519,0,0,0,  63967,23653,0,0,0,  63968,26131,0,0,0,
    63969,26446,0,0,0,  63970,26792,0,0,0,  63971,27877,0,0,0,  63972,29702,0,0,0,
    63973,30178,0,0,0,  63974,32633,0,0,0,  63975,35023,0,0,0,  63976,35041,0,0,0,
    63977,37324,0,0,0,  63978,38626,0,0,0,  63979,21311,0,0,0,  63980,28346,0,0,0,
    63981,21533,0,0,0,  63982,29136,0,0,0,  63983,29848,0,0,0,  63984,34298,0,0,0,
    63985,38563,0,0,0,  63986,40023,0,0,0,  63987,40607,0,0,0,  63988,26519,0,0,0,
    63989,28107,0,0,0,  63990,33256,0,0,0,  63991,31435,0,0,0,  63992,31520,0,0,0,
    63993,31890,0,0,0,  63994,29376,0,0,0,  63995,28825,0,0,0,  63996,35672,0,0,0,
    63997,20160,0,0,0,  63998,33590,0,0,0,  63999,21050,0,0,0,  64000,20999,0,0,0,
    64001,24230,0,0,0,  64002,25299,0,0,0,  64003,31958,0,0,0,  64004,23429,0,0,0,
    64005,27934,0,0,0,  64006,26292,0,0,0,  64007,36667,0,0,0,  64008,34892,0,0,0,
    64009,38477,0,0,0,  64010,35211,0,0,0,  64011,24275,0,0,0,  64012,20800,0,0,0,
    64013,21952,0,0,0,  64016,22618,0,0,0,  64018,26228,0,0,0,  64021,20958,0,0,0,
    64022,29482,0,0,0,  64023,30410,0,0,0,  64024,31036,0,0,0,  64025,31070,0,0,0,
    64026,31077,0,0,0,  64027,31119,0,0,0,  64028,38742,0,0,0,  64029,31934,0,0,0,
    64030,32701,0,0,0,  64032,34322,0,0,0,  64034,35576,0,0,0,  64037,36920,0,0,0,
    64038,37117,0,0,0,  64042,39151,0,0,0,  64043,39164,0,0,0,  64044,39208,0,0,0,
    64045,40372,0,0,0,  64046,37086,0,0,0,  64047,38583,0,0,0,  64048,20398,0,0,0,
    64049,20711,0,0,0,  64050,20813,0,0,0,  64051,21193,0,0,0,  64052,21220,0,0,0,
    64053,21329,0,0,0,  64054,21917,0,0,0,  64055,22022,0,0,0,  64056,22120,0,0,0,
    64057,22592,0,0,0,  64058,22696,0,0,0,  64059,23652,0,0,0,  64060,23662,0,0,0,
    64061,24724,0,0,0,  64062,24936,0,0,0,  64063,24974,0,0,0,  64064,25074,0,0,0,
    64065,25935,0,0,0,  64066,26082,0,0,0,  64067,26257,0,0,0,  64068,26757,0,0,0,
    64069,28023,0,0,0,  64070,28186,0,0,0,  64071,28450,0,0,0,  64072,29038,0,0,0,
    64073,29227,0,0,0,  64074,29730,0,0,0,  64075,30865,0,0,0,  64076,31038,0,0,0,
    64077,31049,0,0,0,  64078,31048,0,0,0,  64079,31056,0,0,0,  64080,31062,0,0,0,
    64081,31069,0,0,0,  64082,31117,0,0,0,  64083,31118,0,0,0,  64084,31296,0,0,0,
    64085,31361,0,0,0,  64086,31680,0,0,0,  64087,32244,0,0,0,  64088,32265,0,0,0,
    64089,32321,0,0,0,  64090,32626,0,0,0,  64091,32773,0,0,0,  64092,33261,0,0,0,
    64093,33401,0,0,0,  64094,33401,0,0,0,  64095,33879,0,0,0,  64096,35088,0,0,0,
    64097,35222,0,0,0,  64098,35585,0,0,0,  64099,35641,0,0,0,  64100,36051,0,0,0,
    64101,36104,0,0,0,  64102,36790,0,0,0,  64103,36920,0,0,0,  64104,38627,0,0,0,
    64105,38911,0,0,0,  64106,38971,0,0,0,  64107,24693,0,0,0,  64108,148206,0,0,0,
    64109,33304,0,0,0,  64112,20006,0,0,0,  64113,20917,0,0,0,  64114,20840,0,0,0,
    64115,20352,0,0,0,  64116,20805,0,0,0,  64117,20864,0,0,0,  64118,21191,0,0,0,
    64119,21242,0,0,0,  64120,21917,0,0,0,  64121,21845,0,0,0,  64122,21913,0,0,0,
    64123,21986,0,0,0,  64124,22618,0,0,0,  64125,22707,0,0,0,  64126,22852,0,0,0,
    64127,22868,0,0,0,  64128,23138,0,0,0,  64129,23336,0,0,0,  64130,24274,0,0,0,
    64131,24281,0,0,0,  64132,24425,0,0,0,  64133,24493,0,0,0,  64134,24792,0,0,0,
    64135,24910,0,0,0,  64136,24840,0,0,0,  64137,24974,0,0,0,  64138,24928,0,0,0,
    64139,25074,0,0,0,  64140,25140,0,0,0,  64141,25540,0,0,0,  64142,25628,0,0,0,
    64143,25682,0,0,0,  64144,25942,0,0,0,  64145,26228,0,0,0,  64146,26391,0,0,0,
    64147,26395,0,0,0,  64148,26454,0,0,0,  64149,27513,0,0,0,  64150,27578,0,0,0,
    64151,27969,0,0,0,  64152,28379,0,0,0,  64153,28363,0,0,0,  64154,28450,0,0,0,
    64155,28702,0,0,0,  64156,29038,0,0,0,  64157,30631,0,0,0,  64158,29237,0,0,0,
    64159,29359,0,0,0,  64160,29482,0,0,0,  64161,29809,0,0,0,  64162,29958,0,0,0,
    64163,30011,0,0,0,  64164,30237,0,0,0,  64165,30239,0,0,0,  64166,30410,0,0,0,
    64167,30427,0,0,0,  64168,30452,0,0,0,  64169,30538,0,0,0,  64170,30528,0,0,0,
    64171,30924,0,0,0,  64172,31409,0,0,0,  64173,31680,0,0,0,  64174,31867,0,0,0,
    64175,32091,0,0,0,  64176,32244,0,0,0,  64177,32574,0,0,0,  64178,32773,0,0,0,
    64179,33618,0,0,0,  64180,33775,0,0,0,  64181,34681,0,0,0,  64182,35137,0,0,0,
    64183,35206,0,0,0,  64184,35222,0,0,0,  64185,35519,0,0,0,  64186,35576,0,0,0,
    64187,35531,0,0,0,  64188,35585,0,0,0,  64189,35582,0,0,0,  64190,35565,0,0,0,
    64191,35641,0,0,0,  64192,35722,0,0,0,  64193,36104,0,0,0,  64194,36664,0,0,0,
    64195,36978,0,0,0,  64196,37273,0,0,0,  64197,37494,0,0,0,  64198,38524,0,0,0,
    64199,38627,0,0,0,  64200,38742,0,0,0,  64201,38875,0,0,0,  64202,38911,0,0,0,
    64203,38923,0,0,0,  64204,38971,0,0,0,  64205,39698,0,0,0,  64206,40860,0,0,0,
    64207,141386,0,0,0,  64208,141380,0,0,0,  64209,144341,0,0,0,  64210,15261,0,0,0,
    64211,16408,0,0,0,  64212,16441,0,0,0,  64213,152137,0,0,0,  64214,154832,0,0,0,
    64215,163539,0,0,0,  64216,40771,0,0,0,  64217,40846,0,0,0,  64285,1497,1460,0,0,
    64287,1522,1463,0,0,  64298,1513,1473,0,0,  64299,1513,1474,0,0,  64300,1513,1468,1473,0,
    64301,1513,1468,1474,0,  64302,1488,1463,0,0,  64303,1488,1464,0,0,  64304,1488,1468,0,0,
    64305,1489,1468,0,0,  64306,1490,1468,0,0,  64307,1491,1468,0,0,  64308,1492,1468,0,0,
    64309,1493,1468,0,0,  64310,1494,1468,0,0,  64312,1496,1468,0,0,  64313,1497,1468,0,0,
    64314,1498,1468,0,0,  64315,1499,1468,0,0,  64316,1500,1468,0,0,  64318,1502,1468,0,0,
    64320,1504,1468,0,0,  64321,1505,1468,0,0,  64323,1507,1468,0,0,  64324,1508,1468,0,0,
    64326,1510,1468,0,0,  64327,1511,1468,0,0,  64328,1512,1468,0,0,  64329,1513,1468,0,0,
    64330,1514,1468,0,0,  64331,1493,1465,0,0,  64332,1489,1471,0,0,  64333,1499,1471,0,0,
    64334,1508,1471,0,0,  69786,69785,69818,0,0,  69788,69787,69818,0,0,  69803,69797,69818,0,0,
    69934,69937,69927,0,0,  69935,69938,69927,0,0,  70475,70471,70462,0,0,
    70476,70471,70487,0,0,  70843,70841,70842,0,0,  70844,70841,70832,0,0,
    70846,70841,70845,0,0,  71098,71096,71087,0,0,  71099,71097,71087,0,0,
    71992,71989,71984,0,0,  119134,119127,119141,0,0,  119135,119128,119141,0,0,
    119136,119128,119141,119150,0,  119137,119128,119141,119151,0,
    119138,119128,119141,119152,0,  119139,119128,119141,119153,0,
    119140,119128,119141,119154,0,  119227,119225,119141,0,0,  119228,119226,119141,0,0,
    119229,119225,119141,119150,0,  119230,119226,119141,119150,0,
    119231,119225,119141,119151,0,  119232,119226,119141,119151,0,  194560,20029,0,0,0,
    194561,20024,0,0,0,  194562,20033,0,0,0,  194563,131362,0,0,0,  194564,20320,0,0,0,
    194565,20398,0,0,0,  194566,20411,0,0,0,  194567,20482,0,0,0,  194568,20602,0,0,0,
    194569,20633,0,0,0,  194570,20711,0,0,0,  194571,20687,0,0,0,  194572,13470,0,0,0,
    194573,132666,0,0,0,  194574,20813,0,0,0,  194575,20820,0,0,0,  194576,20836,0,0,0,
    194577,20855,0,0,0,  194578,132380,0,0,0,  194579,13497,0,0,0,  194580,20839,0,0,0,
    194581,20877,0,0,0,  194582,132427,0,0,0,  194583,20887,0,0,0,  194584,20900,0,0,0,
    194585,20172,0,0,0,  194586,20908,0,0,0,  194587,20917,0,0,0,  194588,168415,0,0,0,
    194589,20981,0,0,0,  194590,20995,0,0,0,  194591,13535,0,0,0,  194592,21051,0,0,0,
    194593,21062,0,0,0,  194594,21106,0,0,0,  194595,21111,0,0,0,  194596,13589,0,0,0,
    194597,21191,0,0,0,  194598,21193,0,0,0,  194599,21220,0,0,0,  194600,21242,0,0,0,
    194601,21253,0,0,0,  194602,21254,0,0,0,  194603,21271,0,0,0,  194604,21321,0,0,0,
    194605,21329,0,0,0,  194606,21338,0,0,0,  194607,21363,0,0,0,  194608,21373,0,0,0,
    194609,21375,0,0,0,  194610,21375,0,0,0,  194611,21375,0,0,0,  194612,133676,0,0,0,
    194613,28784,0,0,0,  194614,21450,0,0,0,  194615,21471,0,0,0,  194616,133987,0,0,0,
    194617,21483,0,0,0,  194618,21489,0,0,0,  194619,21510,0,0,0,  194620,21662,0,0,0,
    194621,21560,0,0,0,  194622,21576,0,0,0,  194623,21608,0,0,0,  194624,21666,0,0,0,
    194625,21750,0,0,0,  194626,21776,0,0,0,  194627,21843,0,0,0,  194628,21859,0,0,0,
    194629,21892,0,0,0,  194630,21892,0,0,0,  194631,21913,0,0,0,  194632,21931,0,0,0,
    194633,21939,0,0,0,  194634,21954,0,0,0,  194635,22294,0,0,0,  194636,22022,0,0,0,
    194637,22295,0,0,0,  194638,22097,0,0,0,  194639,22132,0,0,0,  194640,20999,0,0,0,
    194641,22766,0,0,0,  194642,22478,0,0,0,  194643,22516,0,0,0,  194644,22541,0,0,0,
    194645,22411,0,0,0,  194646,22578,0,0,0,  194647,22577,0,0,0,  194648,22700,0,0,0,
    194649,136420,0,0,0,  194650,22770,0,0,0,  194651,22775,0,0,0,  194652,22790,0,0,0,
    194653,22810,0,0,0,  194654,22818,0,0,0,  194655,22882,0,0,0,  194656,136872,0,0,0,
    194657,136938,0,0,0,  194658,23020,0,0,0,  194659,23067,0,0,0,  194660,23079,0,0,0,
    194661,23000,0,0,0,  194662,23142,0,0,0,  194663,14062,0,0,0,  194664,14076,0,0,0,
    194665,23304,0,0,0,  194666,23358,0,0,0,  194667,23358,0,0,0,  194668,137672,0,0,0,
    194669,23491,0,0,0,  194670,23512,0,0,0,  194671,23527,0,0,0,  194672,23539,0,0,0,
    194673,138008,0,0,0,  194674,23551,0,0,0,  194675,23558,0,0,0,  194676,24403,0,0,0,
    194677,23586,0,0,0,  194678,14209,0,0,0,  194679,23648,0,0,0,  194680,23662,0,0,0,
    194681,23744,0,0,0,  194682,23693,0,0,0,  194683,138724,0,0,0,  194684,23875,0,0,0,
    194685,138726,0,0,0,  194686,23918,0,0,0,  194687,23915,0,0,0,  194688,23932,0,0,0,
    194689,24033,0,0,0,  194690,24034,0,0,0,  194691,14383,0,0,0,  194692,24061,0,0,0,
    194693,24104,0,0,0,  194694,24125,0,0,0,  194695,24169,0,0,0,  194696,14434,0,0,0,
    194697,139651,0,0,0,  194698,14460,0,0,0,  194699,24240,0,0,0,  194700,24243,0,0,0,
    194701,24246,0,0,0,  194702,24266,0,0,0,  194703,172946,0,0,0,  194704,24318,0,0,0,
    194705,140081,0,0,0,  194706,140081,0,0,0,  194707,33281,0,0,0,  194708,24354,0,0,0,
    194709,24354,0,0,0,  194710,14535,0,0,0,  194711,144056,0,0,0,  194712,156122,0,0,0,
    194713,24418,0,0,0,  194714,24427,0,0,0,  194715,14563,0,0,0,  194716,24474,0,0,0,
    194717,24525,0,0,0,  194718,24535,0,0,0,  194719,24569,0,0,0,  194720,24705,0,0,0,
    194721,14650,0,0,0,  194722,14620,0,0,0,  194723,24724,0,0,0,  194724,141012,0,0,0,
    194725,24775,0,0,0,  194726,24904,0,0,0,  194727,24908,0,0,0,  194728,24910,0,0,0,
    194729,24908,0,0,0,  194730,24954,0,0,0,  194731,24974,0,0,0,  194732,25010,0,0,0,
    194733,24996,0,0,0,  194734,25007,0,0,0,  194735,25054,0,0,0,  194736,25074,0,0,0,
    194737,25078,0,0,0,  194738,25104,0,0,0,  194739,25115,0,0,0,  194740,25181,0,0,0,
    194741,25265,0,0,0,  194742,25300,0,0,0,  194743,25424,0,0,0,  194744,142092,0,0,0,
    194745,25405,0,0,0,  194746,25340,0,0,0,  194747,25448,0,0,0,  194748,25475,0,0,0,
    194749,25572,0,0,0,  194750,142321,0,0,0,  194751,25634,0,0,0,  194752,25541,0,0,0,
    194753,25513,0,0,0,  194754,14894,0,0,0,  194755,25705,0,0,0,  194756,25726,0,0,0,
    194757,25757,0,0,0,  194758,25719,0,0,0,  194759,14956,0,0,0,  194760,25935,0,0,0,
    194761,25964,0,0,0,  194762,143370,0,0,0,  194763,26083,0,0,0,  194764,26360,0,0,0,
    194765,26185,0,0,0,  194766,15129,0,0,0,  194767,26257,0,0,0,  194768,15112,0,0,0,
    194769,15076,0,0,0,  194770,20882,0,0,0,  194771,20885,0,0,0,  194772,26368,0,0,0,
    194773,26268,0,0,0,  194774,32941,0,0,0,  194775,17369,0,0,0,  194776,26391,0,0,0,
    194777,26395,0,0,0,  194778,26401,0,0,0,  194779,26462,0,0,0,  194780,26451,0,0,0,
    194781,144323,0,0,0,  194782,15177,0,0,0,  194783,26618,0,0,0,  194784,26501,0,0,0,
    194785,26706,0,0,0,  194786,26757,0,0,0,  194787,144493,0,0,0,  194788,26766,0,0,0,
    194789,26655,0,0,0,  194790,26900,0,0,0,  194791,15261,0,0,0,  194792,26946,0,0,0,
    194793,27043,0,0,0,  194794,27114,0,0,0,  194795,27304,0,0,0,  194796,145059,0,0,0,
    194797,27355,0,0,0,  194798,15384,0,0,0,  194799,27425,0,0,0,  194800,145575,0,0,0,
    194801,27476,0,0,0,  194802,15438,0,0,0,  194803,27506,0,0,0,  194804,27551,0,0,0,
    194805,27578,0,0,0,  194806,27579,0,0,0,  194807,146061,0,0,0,  194808,138507,0,0,0,
    194809,146170,0,0,0,  194810,27726,0,0,0,  194811,146620,0,0,0,  194812,27839,0,0,0,
    194813,27853,0,0,0,  194814,27751,0,0,0,  194815,27926,0,0,0,  194816,27966,0,0,0,
    194817,28023,0,0,0,  194818,27969,0,0,0,  194819,28009,0,0,0,  194820,28024,0,0,0,
    194821,28037,0,0,0,  194822,146718,0,0,0,  194823,27956,0,0,0,  194824,28207,0,0,0,
    194825,28270,0,0,0,  194826,15667,0,0,0,  194827,28363,0,0,0,  194828,28359,0,0,0,
    194829,147153,0,0,0,  194830,28153,0,0,0,  194831,28526,0,0,0,  194832,147294,0,0,0,
    194833,147342,0,0,0,  194834,28614,0,0,0,  194835,28729,0,0,0,  194836,28702,0,0,0,
    194837,28699,0,0,0,  194838,15766,0,0,0,  194839,28746,0,0,0,  194840,28797,0,0,0,
    194841,28791,0,0,0,  194842,28845,0,0,0,  194843,132389,0,0,0,  194844,28997,0,0,0,
    194845,148067,0,0,0,  194846,29084,0,0,0,  194847,148395,0,0,0,  194848,29224,0,0,0,
    194849,29237,0,0,0,  194850,29264,0,0,0,  194851,149000,0,0,0,  194852,29312,0,0,0,
    194853,29333,0,0,0,  194854,149301,0,0,0,  194855,149524,0,0,0,  194856,29562,0,0,0,
    194857,29579,0,0,0,  194858,16044,0,0,0,  194859,29605,0,0,0,  194860,16056,0,0,0,
    194861,16056,0,0,0,  194862,29767,0,0,0,  194863,29788,0,0,0,  194864,29809,0,0,0,
    194865,29829,0,0,0,  194866,29898,0,0,0,  194867,16155,0,0,0,  194868,29988,0,0,0,
    194869,150582,0,0,0,  194870,30014,0,0,0,  194871,150674,0,0,0,  194872,30064,0,0,0,
    194873,139679,0,0,0,  194874,30224,0,0,0,  194875,151457,0,0,0,  194876,151480,0,0,0,
    194877,151620,0,0,0,  194878,16380,0,0,0,  194879,16392,0,0,0,  194880,30452,0,0,0,
    194881,151795,0,0,0,  194882,151794,0,0,0,  194883,151833,0,0,0,  194884,151859,0,0,0,
    194885,30494,0,0,0,  194886,30495,0,0,0,  194887,30495,0,0,0,  194888,30538,0,0,0,
    194889,16441,0,0,0,  194890,30603,0,0,0,  194891,16454,0,0,0,  194892,16534,0,0,0,
    194893,152605,0,0,0,  194894,30798,0,0,0,  194895,30860,0,0,0,  194896,30924,0,0,0,
    194897,16611,0,0,0,  194898,153126,0,0,0,  194899,31062,0,0,0,  194900,153242,0,0,0,
    194901,153285,0,0,0,  194902,31119,0,0,0,  194903,31211,0,0,0,  194904,16687,0,0,0,
    194905,31296,0,0,0,  194906,31306,0,0,0,  194907,31311,0,0,0,  194908,153980,0,0,0,
    194909,154279,0,0,0,  194910,154279,0,0,0,  194911,31470,0,0,0,  194912,16898,0,0,0,
    194913,154539,0,0,0,  194914,31686,0,0,0,  194915,31689,0,0,0,  194916,16935,0,0,0,
    194917,154752,0,0,0,  194918,31954,0,0,0,  194919,17056,0,0,0,  194920,31976,0,0,0,
    194921,31971,0,0,0,  194922,32000,0,0,0,  194923,155526,0,0,0,  194924,32099,0,0,0,
    194925,17153,0,0,0,  194926,32199,0,0,0,  194927,32258,0,0,0,  194928,32325,0,0,0,
    194929,17204,0,0,0,  194930,156200,0,0,0,  194931,156231,0,0,0,  194932,17241,0,0,0,
    194933,156377,0,0,0,  194934,32634,0,0,0,  194935,156478,0,0,0,  194936,32661,0,0,0,
    194937,32762,0,0,0,  194938,32773,0,0,0,  194939,156890,0,0,0,  194940,156963,0,0,0,
    194941,32864,0,0,0,  194942,157096,0,0,0,  194943,32880,0,0,0,  194944,144223,0,0,0,
    194945,17365,0,0,0,  194946,32946,0,0,0,  194947,33027,0,0,0,  194948,17419,0,0,0,
    194949,33086,0,0,0,  194950,23221,0,0,0,  194951,157607,0,0,0,  194952,157621,0,0,0,
    194953,144275,0,0,0,  194954,144284,0,0,0,  194955,33281,0,0,0,  194956,33284,0,0,0,
    194957,36766,0,0,0,  194958,17515,0,0,0,  194959,33425,0,0,0,  194960,33419,0,0,0,
    194961,33437,0,0,0,  194962,21171,0,0,0,  194963,33457,0,0,0,  194964,33459,0,0,0,
    194965,33469,0,0,0,  194966,33510,0,0,0,  194967,158524,0,0,0,  194968,33509,0,0,0,
    194969,33565,0,0,0,  194970,33635,0,0,0,  194971,33709,0,0,0,  194972,33571,0,0,0,
    194973,33725,0,0,0,  194974,33767,0,0,0,  194975,33879,0,0,0,  194976,33619,0,0,0,
    194977,33738,0,0,0,  194978,33740,0,0,0,  194979,33756,0,0,0,  194980,158774,0,0,0,
    194981,159083,0,0,0,  194982,158933,0,0,0,  194983,17707,0,0,0,  194984,34033,0,0,0,
    194985,34035,0,0,0,  194986,34070,0,0,0,  194987,160714,0,0,0,  194988,34148,0,0,0,
    194989,159532,0,0,0,  194990,17757,0,0,0,  194991,17761,0,0,0,  194992,159665,0,0,0,
    194993,159954,0,0,0,  194994,17771,0,0,0,  194995,34384,0,0,0,  194996,34396,0,0,0,
    194997,34407,0,0,0,  194998,34409,0,0,0,  194999,34473,0,0,0,  195000,34440,0,0,0,
    195001,34574,0,0,0,  195002,34530,0,0,0,  195003,34681,0,0,0,  195004,34600,0,0,0,
    195005,34667,0,0,0,  195006,34694,0,0,0,  195007,17879,0,0,0,  195008,34785,0,0,0,
    195009,34817,0,0,0,  195010,17913,0,0,0,  195011,34912,0,0,0,  195012,34915,0,0,0,
    195013,161383,0,0,0,  195014,35031,0,0,0,  195015,35038,0,0,0,  195016,17973,0,0,0,
    195017,35066,0,0,0,  195018,13499,0,0,0,  195019,161966,0,0,0,  195020,162150,0,0,0,
    195021,18110,0,0,0,  195022,18119,0,0,0,  195023,35488,0,0,0,  195024,35565,0,0,0,
    195025,35722,0,0,0,  195026,35925,0,0,0,  195027,162984,0,0,0,  195028,36011,0,0,0,
    195029,36033,0,0,0,  195030,36123,0,0,0,  195031,36215,0,0,0,  195032,163631,0,0,0,
    195033,133124,0,0,0,  195034,36299,0,0,0,  195035,36284,0,0,0,  195036,36336,0,0,0,
    195037,133342,0,0,0,  195038,36564,0,0,0,  195039,36664,0,0,0,  195040,165330,0,0,0,
    195041,165357,0,0,0,  195042,37012,0,0,0,  195043,37105,0,0,0,  195044,37137,0,0,0,
    195045,165678,0,0,0,  195046,37147,0,0,0,  195047,37432,0,0,0,  195048,37591,0,0,0,
    195049,37592,0,0,0,  195050,37500,0,0,0,  195051,37881,0,0,0,  195052,37909,0,0,0,
    195053,166906,0,0,0,  195054,38283,0,0,0,  195055,18837,0,0,0,  195056,38327,0,0,0,
    195057,167287,0,0,0,  195058,18918,0,0,0,  195059,38595,0,0,0,  195060,23986,0,0,0,
    195061,38691,0,0,0,  195062,168261,0,0,0,  195063,168474,0,0,0,  195064,19054,0,0,0,
    195065,19062,0,0,0,  195066,38880,0,0,0,  195067,168970,0,0,0,  195068,19122,0,0,0,
    195069,169110,0,0,0,  195070,38923,0,0,0,  195071,38923,0,0,0,  195072,38953,0,0,0,
    195073,169398,0,0,0,  195074,39138,0,0,0,  195075,19251,0,0,0,  195076,39209,0,0,0,
    195077,39335,0,0,0,  195078,39362,0,0,0,  195079,39422,0,0,0,  195080,19406,0,0,0,
    195081,170800,0,0,0,  195082,39698,0,0,0,  195083,40000,0,0,0,  195084,40189,0,0,0,
    195085,19662,0,0,0,  195086,19693,0,0,0,  195087,40295,0,0,0,  195088,172238,0,0,0,
    195089,19704,0,0,0,  195090,172293,0,0,0,  195091,172558,0,0,0,  195092,172689,0,0,0,
    195093,40635,0,0,0,  195094,19798,0,0,0,  195095,40697,0,0,0,  195096,40702,0,0,0,
    195097,40709,0,0,0,  195098,40719,0,0,0,  195099,40726,0,0,0,  195100,40763,0,0,0,
    195101,173568,0,0,0 >>

\* primary composites, the rows first, second, composite; the Hangul syllables
\* are composed by arithmetic
Compositions ==
  << 60,824,8814,  61,824,8800,  62,824,8815,  65,768,192,  65,769,193,  65,770,194,  65,771,195,
    65,772,256,  65,774,258,  65,775,550,  65,776,196,  65,777,7842,  65,778,197,  65,780,461,
    65,783,512,  65,785,514,  65,803,7840,  65,805,7680,  65,808,260,  66,775,7682,
    66,803,7684,  66,817,7686,  67,769,262,  67,770,264,  67,775,266,  67,780,268,  67,807,199,
    68,775,7690,  68,780,270,  68,803,7692,  68,807,7696,  68,813,7698,  68,817,7694,
    69,768,200,  69,769,201,  69,770,202,  69,771,7868,  69,772,274,  69,774,276,  69,775,278,
    69,776,203,  69,777,7866,  69,780,282,  69,783,516,  69,785,518,  69,803,7864,  69,807,552,
    69,808,280,  69,813,7704,  69,816,7706,  70,775,7710,  71,769,500,  71,770,284,
    71,772,7712,  71,774,286,  71,775,288,  71,780,486,  71,807,290,  72,770,292,  72,775,7714,
    72,776,7718,  72,780,542,  72,803,7716,  72,807,7720,  72,814,7722,  73,768,204,
    73,769,205,  73,770,206,  73,771,296,  73,772,298,  73,774,300,  73,775,304,  73,776,207,
    73,777,7880,  73,780,463,  73,783,520,  73,785,522,  73,803,7882,  73,808,302,  73,816,7724,
    74,770,308,  75,769,7728,  75,780,488,  75,803,7730,  75,807,310,  75,817,7732,  76,769,313,
    76,780,317,  76,803,7734,  76,807,315,  76,813,7740,  76,817,7738,  77,769,7742,
    77,775,7744,  77,803,7746,  78,768,504,  78,769,323,  78,771,209,  78,775,7748,  78,780,327,
    78,803,7750,  78,807,325,  78,813,7754,  78,817,7752,  79,768,210,  79,769,211,  79,770,212,
    79,771,213,  79,772,332,  79,774,334,  79,775,558,  79,776,214,  79,777,7886,  79,779,336,
    79,780,465,  79,783,524,  79,785,526,  79,795,416,  79,803,7884,  79,808,490,  80,769,7764,
    80,775,7766,  82,769,340,  82,775,7768,  82,780,344,  82,783,528,  82,785,530,  82,803,7770,
    82,807,342,  82,817,7774,  83,769,346,  83,770,348,  83,775,7776,  83,780,352,  83,803,7778,
    83,806,536,  83,807,350,  84,775,7786,  84,780,356,  84,803,7788,  84,806,538,  84,807,354,
    84,813,7792,  84,817,7790,  85,768,217,  85,769,218,  85,770,219,  85,771,360,  85,772,362,
    85,774,364,  85,776,220,  85,777,7910,  85,778,366,  85,779,368,  85,780,467,  85,783,532,
    85,785,534,  85,795,431,  85,803,7908,  85,804,7794,  85,808,370,  85,813,7798,
    85,816,7796,  86,771,7804,  86,803,7806,  87,768,7808,  87,769,7810,  87,770,372,
    87,775,7814,  87,776,7812,  87,803,7816,  88,775,7818,  88,776,7820,  89,768,7922,
    89,769,221,  89,770,374,  89,771,7928,  89,772,562,  89,775,7822,  89,776,376,  89,777,7926,
    89,803,7924,  90,769,377,  90,770,7824,  90,775,379,  90,780,381,  90,803,7826,
    90,817,7828,  97,768,224,  97,769,225,  97,770,226,  97,771,227,  97,772,257,  97,774,259,
    97,775,551,  97,776,228,  97,777,7843,  97,778,229,  97,780,462,  97,783,513,  97,785,515,
    97,803,7841,  97,805,7681,  97,808,261,  98,775,7683,  98,803,7685,  98,817,7687,
    99,769,263,  99,770,265,  99,775,267,  99,780,269,  99,807,231,  100,775,7691,  100,780,271,
    100,803,7693,  100,807,7697,  100,813,7699,  100,817,7695,  101,768,232,  101,769,233,
    101,770,234,  101,771,7869,  101,772,275,  101,774,277,  101,775,279,  101,776,235,
    101,777,7867,  101,780,283,  101,783,517,  101,785,519,  101,803,7865,  101,807,553,
    101,808,281,  101,813,7705,  101,816,7707,  102,775,7711,  103,769,501,  103,770,285,
    103,772,7713,  103,774,287,  103,775,289,  103,780,487,  103,807,291,  104,770,293,
    104,775,7715,  104,776,7719,  104,780,543,  104,803,7717,  104,807,7721,  104,814,7723,
    104,817,7830,  105,768,236,  105,769,237,  105,770,238,  105,771,297,  105,772,299,
    105,774,301,  105,776,239,  105,777,7881,  105,780,464,  105,783,521,  105,785,523,
    105,803,7883,  105,808,303,  105,816,7725,  106,770,309,  106,780,496,  107,769,7729,
    107,780,489,  107,803,7731,  107,807,311,  107,817,7733,  108,769,314,  108,780,318,
    108,803,7735,  108,807,316,  108,813,7741,  108,817,7739,  109,769,7743,  109,775,7745,
    109,803,7747,  110,768,505,  110,769,324,  110,771,241,  110,775,7749,  110,780,328,
    110,803,7751,  110,807,326,  110,813,7755,  110,817,7753,  111,768,242,  111,769,243,
    111,770,244,  111,771,245,  111,772,333,  111,774,335,  111,775,559,  111,776,246,
    111,777,7887,  111,779,337,  111,780,466,  111,783,525,  111,785,527,  111,795,417,
    111,803,7885,  111,808,491,  112,769,7765,  112,775,7767,  114,769,341,  114,775,7769,
    114,780,345,  114,783,529,  114,785,531,  114,803,7771,  114,807,343,  114,817,7775,
    115,769,347,  115,770,349,  115,775,7777,  115,780,353,  115,803,7779,  115,806,537,
    115,807,351,  116,775,7787,  116,776,7831,  116,780,357,  116,803,7789,  116,806,539,
    116,807,355,  116,813,7793,  116,817,7791,  117,768,249,  117,769,250,  117,770,251,
    117,771,361,  117,772,363,  117,774,365,  117,776,252,  117,777,7911,  117,778,367,
    117,779,369,  117,780,468,  117,783,533,  117,785,535,  117,795,432,  117,803,7909,
    117,804,7795,  117,808,371,  117,813,7799,  117,816,7797,  118,771,7805,  118,803,7807,
    119,768,7809,  119,769,7811,  119,770,373,  119,775,7815,  119,776,7813,  119,778,7832,
    119,803,7817,  120,775,7819,  120,776,7821,  121,768,7923,  121,769,253,  121,770,375,
    121,771,7929,  121,772,563,  121,775,7823,  121,776,255,  121,777,7927,  121,778,7833,
    121,803,7925,  122,769,378,  122,770,7825,  122,775,380,  122,780,382,  122,803,7827,
    122,817,7829,  168,768,8173,  168,769,901,  168,834,8129,  194,768,7846,  194,769,7844,
    194,771,7850,  194,777,7848,  196,772,478,  197,769,506,  198,769,508,  198,772,482,
    199,769,7688,  202,768,7872,  202,769,7870,  202,771,7876,  202,777,7874,  207,769,7726,
    212,768,7890,  212,769,7888,  212,771,7894,  212,777,7892,  213,769,7756,  213,772,556,
    213,776,7758,  214,772,554,  216,769,510,  220,768,475,  220,769,471,  220,772,469,
    220,780,473,  226,768,7847,  226,769,7845,  226,771,7851,  226,777,7849,  228,772,479,
    229,769,507,  230,769,509,  230,772,483,  231,769,7689,  234,768,7873,  234,769,7871,
    234,771,7877,  234,777,7875,  239,769,7727,  244,768,7891,  244,769,7889,  244,771,7895,
    244,777,7893,  245,769,7757,  245,772,557,  245,776,7759,  246,772,555,  248,769,511,
    252,768,476,  252,769,472,  252,772,470,  252,780,474,  258,768,7856,  258,769,7854,
    258,771,7860,  258,777,7858,  259,768,7857,  259,769,7855,  259,771,7861,  259,777,7859,
    274,768,7700,  274,769,7702,  275,768,7701,  275,769,7703,  332,768,7760,  332,769,7762,
    333,768,7761,  333,769,7763,  346,775,7780,  347,775,7781,  352,775,7782,  353,775,7783,
    360,769,7800,  361,769,7801,  362,776,7802,  363,776,7803,  383,775,7835,  416,768,7900,
    416,769,7898,  416,771,7904,  416,777,7902,  416,803,7906,  417,768,7901,  417,769,7899,
    417,771,7905,  417,777,7903,  417,803,7907,  431,768,7914,  431,769,7912,  431,771,7918,
    431,777,7916,  431,803,7920,  432,768,7915,  432,769,7913,  432,771,7919,  432,777,7917,
    432,803,7921,  439,780,494,  490,772,492,  491,772,493,  550,772,480,  551,772,481,
    552,774,7708,  553,774,7709,  558,772,560,  559,772,561,  658,780,495,  913,768,8122,
    913,769,902,  913,772,8121,  913,774,8120,  913,787,7944,  913,788,7945,  913,837,8124,
    917,768,8136,  917,769,904,  917,787,7960,  917,788,7961,  919,768,8138,  919,769,905,
    919,787,7976,  919,788,7977,  919,837,8140,  921,768,8154,  921,769,906,  921,772,8153,
    921,774,8152,  921,776,938,  921,787,7992,  921,788,7993,  927,768,8184,  927,769,908,
    927,787,8008,  927,788,8009,  929,788,8172,  933,768,8170,  933,769,910,  933,772,8169,
    933,774,8168,  933,776,939,  933,788,8025,  937,768,8186,  937,769,911,  937,787,8040,
    937,788,8041,  937,837,8188,  940,837,8116,  942,837,8132,  945,768,8048,  945,769,940,
    945,772,8113,  945,774,8112,  945,787,7936,  945,788,7937,  945,834,8118,  945,837,8115,
    949,768,8050,  949,769,941,  949,787,7952,  949,788,7953,  951,768,8052,  951,769,942,
    951,787,7968,  951,788,7969,  951,834,8134,  951,837,8131,  953,768,8054,  953,769,943,
    953,772,8145,  953,774,8144,  953,776,970,  953,787,7984,  953,788,7985,  953,834,8150,
    959,768,8056,  959,769,972,  959,787,8000,  959,788,8001,  961,787,8164,  961,788,8165,
    965,768,8058,  965,769,973,  965,772,8161,  965,774,8160,  965,776,971,  965,787,8016,
    965,788,8017,  965,834,8166,  969,768,8060,  969,769,974,  969,787,8032,  969,788,8033,
    969,834,8182,  969,837,8179,  970,768,8146,  970,769,912,  970,834,8151,  971,768,8162,
    971,769,944,  971,834,8167,  974,837,8180,  978,769,979,  978,776,980,  1030,776,1031,
    1040,774,1232,  1040,776,1234,  1043,769,1027,  1045,768,1024,  1045,774,1238,
    1045,776,1025,  1046,774,1217,  1046,776,1244,  1047,776,1246,  1048,768,1037,
    1048,772,1250,  1048,774,1049,  1048,776,1252,  1050,769,1036,  1054,776,1254,
    1059,772,1262,  1059,774,1038,  1059,776,1264,  1059,779,1266,  1063,776,1268,
    1067,776,1272,  1069,776,1260,  1072,774,1233,  1072,776,1235,  1075,769,1107,
    1077,768,1104,  1077,774,1239,  1077,776,1105,  1078,774,1218,  1078,776,1245,
    1079,776,1247,  1080,768,1117,  1080,772,1251,  1080,774,1081,  1080,776,1253,
    1082,769,1116,  1086,776,1255,  1091,772,1263,  1091,774,1118,  1091,776,1265,
    1091,779,1267,  1095,776,1269,  1099,776,1273,  1101,776,1261,  1110,776,1111,
    1140,783,1142,  1141,783,1143,  1240,776,1242,  1241,776,1243,  1256,776,1258,
    1257,776,1259,  1575,1619,1570,  1575,1620,1571,  1575,1621,1573,  1608,1620,1572,
    1610,1620,1574,  1729,1620,1730,  1746,1620,1747,  1749,1620,1728,  2344,2364,2345,
    2352,2364,2353,  2355,2364,2356,  2503,2494,2507,  2503,2519,2508,  2887,2878,2891,
    2887,2902,2888,  2887,2903,2892,  2962,3031,2964,  3014,3006,3018,  3014,3031,3020,
    3015,3006,3019,  3142,3158,3144,  3263,3285,3264,  3270,3266,3274,  3270,3285,3271,
    3270,3286,3272,  3274,3285,3275,  3398,3390,3402,  3398,3415,3404,  3399,3390,3403,
    3545,3530,3546,  3545,3535,3548,  3545,3551,3550,  3548,3530,3549,  4133,4142,4134,
    6917,6965,6918,  6919,6965,6920,  6921,6965,6922,  6923,6965,6924,  6925,6965,6926,
    6929,6965,6930,  6970,6965,6971,  6972,6965,6973,  6974,6965,6976,  6975,6965,6977,
    6978,6965,6979,  7734,772,7736,  7735,772,7737,  7770,772,7772,  7771,772,7773,
    7778,775,7784,  7779,775,7785,  7840,770,7852,  7840,774,7862,  7841,770,7853,
    7841,774,7863,  7864,770,7878,  7865,770,7879,  7884,770,7896,  7885,770,7897,
    7936,768,7938,  7936,769,7940,  7936,834,7942,  7936,837,8064,  7937,768,7939,
    7937,769,7941,  7937,834,7943,  7937,837,8065,  7938,837,8066,  7939,837,8067,
    7940,837,8068,  7941,837,8069,  7942,837,8070,  7943,837,8071,  7944,768,7946,
    7944,769,7948,  7944,834,7950,  7944,837,8072,  7945,768,7947,  7945,769,7949,
    7945,834,7951,  7945,837,8073,  7946,837,8074,  7947,837,8075,  7948,837,8076,
    7949,837,8077,  7950,837,8078,  7951,837,8079,  7952,768,7954,  7952,769,7956,
    7953,768,7955,  7953,769,7957,  7960,768,7962,  7960,769,7964,  7961,768,7963,
    7961,769,7965,  7968,768,7970,  7968,769,7972,  7968,834,7974,  7968,837,8080,
    7969,768,7971,  7969,769,7973,  7969,834,7975,  7969,837,8081,  7970,837,8082,
    7971,837,8083,  7972,837,8084,  7973,837,8085,  7974,837,8086,  7975,837,8087,
    7976,768,7978,  7976,769,7980,  7976,834,7982,  7976,837,8088,  7977,768,7979,
    7977,769,7981,  7977,834,7983,  7977,837,8089,  7978,837,8090,  7979,837,8091,
    7980,837,8092,  7981,837,8093,  7982,837,8094,  7983,837,8095,  7984,768,7986,
    7984,769,7988,  7984,834,7990,  7985,768,7987,  7985,769,7989,  7985,834,7991,
    7992,768,7994,  7992,769,7996,  7992,834,7998,  7993,768,7995,  7993,769,7997,
    7993,834,7999,  8000,768,8002,  8000,769,8004,  8001,768,8003,  8001,769,8005,
    8008,768,8010,  8008,769,8012,  8009,768,8011,  8009,769,8013,  8016,768,8018,
    8016,769,8020,  8016,834,8022,  8017,768,8019,  8017,769,8021,  8017,834,8023,
    8025,768,8027,  8025,769,8029,  8025,834,8031,  8032,768,8034,  8032,769,8036,
    8032,834,8038,  8032,837,8096,  8033,768,8035,  8033,769,8037,  8033,834,8039,
    8033,837,8097,  8034,837,8098,  8035,837,8099,  8036,837,8100,  8037,837,8101,
    8038,837,8102,  8039,837,8103,  8040,768,8042,  8040,769,8044,  8040,834,8046,
    8040,837,8104,  8041,768,8043,  8041,769,8045,  8041,834,8047,  8041,837,8105,
    8042,837,8106,  8043,837,8107,  8044,837,8108,  8045,837,8109,  8046,837,8110,
    8047,837,8111,  8048,837,8114,  8052,837,8130,  8060,837,8178,  8118,837,8119,
    8127,768,8141,  8127,769,8142,  8127,834,8143,  8134,837,8135,  8182,837,8183,
    8190,768,8157,  8190,769,8158,  8190,834,8159,  8592,824,8602,  8594,824,8603,
    8596,824,8622,  8656,824,8653,  8658,824,8655,  8660,824,8654,  8707,824,8708,
    8712,824,8713,  8715,824,8716,  8739,824,8740,  8741,824,8742,  8764,824,8769,
    8771,824,8772,  8773,824,8775,  8776,824,8777,  8781,824,8813,  8801,824,8802,
    8804,824,8816,  8805,824,8817,  8818,824,8820,  8819,824,8821,  8822,824,8824,
    8823,824,8825,  8826,824,8832,  8827,824,8833,  8828,824,8928,  8829,824,8929,
    8834,824,8836,  8835,824,8837,  8838,824,8840,  8839,824,8841,  8849,824,8930,
    8850,824,8931,  8866,824,8876,  8872,824,8877,  8873,824,8878,  8875,824,8879,
    8882,824,8938,  8883,824,8939,  8884,824,8940,  8885,824,8941,  12358,12441,12436,
    12363,12441,12364,  12365,12441,12366,  12367,12441,12368,  12369,12441,12370,
    12371,12441,12372,  12373,12441,12374,  12375,12441,12376,  12377,12441,12378,
    12379,12441,12380,  12381,12441,12382,  12383,12441,12384,  12385,12441,12386,
    12388,12441,12389,  12390,12441,12391,  12392,12441,12393,  12399,12441,12400,
    12399,12442,12401,  12402,12441,12403,  12402,12442,12404,  12405,12441,12406,
    12405,12442,12407,  12408,12441,12409,  12408,12442,12410,  12411,12441,12412,
    12411,12442,12413,  12445,12441,12446,  12454,12441,12532,  12459,12441,12460,
    12461,12441,12462,  12463,12441,12464,  12465,12441,12466,  12467,12441,12468,
    12469,12441,12470,  12471,12441,12472,  12473,12441,12474,  12475,12441,12476,
    12477,12441,12478,  12479,12441,12480,  12481,12441,12482,  12484,12441,12485,
    12486,12441,12487,  12488,12441,12489,  12495,12441,12496,  12495,12442,12497,
    12498,12441,12499,  12498,12442,12500,  12501,12441,12502,  12501,12442,12503,
    12504,12441,12505,  12504,12442,12506,  12507,12441,12508,  12507,12442,12509,
    12527,12441,12535,  12528,12441,12536,  12529,12441,12537,  12530,12441,12538,
    12541,12441,12542,  69785,69818,69786,  69787,69818,69788,  69797,69818,69803,
    69937,69927,69934,  69938,69927,69935,  70471,70462,70475,  70471,70487,70476,
    70841,70832,70844,  70841,70842,70843,  70841,70845,70846,  71096,71087,71098,
    71097,71087,71099,  71989,71984,71992 >>

\* full canonical decomposition of a code point
Decompose(n) ==
  IF n < 192 THEN <<n>>
  ELSE IF n \in 44032..55203
  THEN LET s == n - 44032
           l == 4352 + (s \div 588)
           v == 4449 + ((s % 588) \div 28)
       IN  IF s % 28 = 0 THEN <<l, v>> ELSE <<l, v, 4519 + (s % 28)>>
  ELSE LET d == Expansion(Decompositions, 4, n)
       IN  IF d = <<>> THEN <<n>> ELSE d

\* canonical ordering: the marks (combining class not 0) of every run of marks
\* are sorted by combining class, stably; the run around position i is from
\* first(i) to last(i), and place(i) is where the mark at i goes
Reordered(u) ==
  Only([ccc \in {[i \in 1..Len(u) |-> ValueIn(CombiningClasses, u[i], 0)] \o <<>>} |->
    LET first(i) == Greatest({0} \cup { j \in 1..i : ccc[j] = 0 }) + 1
        last(i)  == Least({Len(u) + 1} \cup { j \in i..Len(u) : ccc[j] = 0 }) - 1
        place(i) == first(i) - 1
                    + Cardinality({ j \in first(i)..last(i) :
                                      ccc[j] < ccc[i] \/ (ccc[j] = ccc[i] /\ j <= i) })
    IN  [k \in 1..Len(u) |->
           IF ccc[k] = 0 THEN u[k]
           ELSE u[CHOOSE i \in first(k)..last(k) : place(i) = k]]])

\* the primary composite of a pair, 0 when there is none
Composite(a, b) ==
  IF a \in 4352..4370 /\ b \in 4449..4469
  THEN 44032 + (((a - 4352) * 21) + (b - 4449)) * 28
  ELSE IF a \in 44032..55203 /\ (a - 44032) % 28 = 0 /\ b \in 4520..4546
  THEN a + (b - 4519)
  ELSE LET rows == { i \in 1..(Len(Compositions) \div 3) :
                       Compositions[3 * i - 2] = a /\ Compositions[3 * i - 1] = b }
       IN  IF rows = {} THEN 0 ELSE Compositions[3 * Least(rows)]

\* canonical composition of the code points of u at the positions lo to hi, in
\* order; out is the composed prefix and s the position in out of its last
\* starter (0: none).  The positions are taken one half after the other
RECURSIVE ComposeFrom(_, _, _, _, _)
ComposeFrom(u, lo, hi, out, s) ==
  IF lo > hi THEN [out |-> out, s |-> s]
  ELSE IF lo = hi
  THEN LET cc        == ValueIn(CombiningClasses, u[lo], 0)
           composite == IF /\ s > 0
                           /\ (s = Len(out) \/ ValueIn(CombiningClasses, out[Len(out)], 0) < cc)
                        THEN Composite(out[s], u[lo]) ELSE 0
       IN  IF composite # 0
           THEN [out |-> [out EXCEPT ![s] = composite], s |-> s]
           ELSE [out |-> Append(out, u[lo]), s |-> IF cc = 0 THEN Len(out) + 1 ELSE s]
  ELSE Only([half \in {ComposeFrom(u, lo, (lo + hi) \div 2, out, s)} |->
         ComposeFrom(u, ((lo + hi) \div 2) + 1, hi, half.out, half.s)])

NFC(u) ==
  Only([d \in {Reordered(Flat([i \in 1..Len(u) |-> Decompose(u[i])], 4))} |->
    ComposeFrom(d, 1, Len(d), <<>>, 0).out])

(***************************************************************************)
(* Validity of a label as the URL parser of the runtime checks it          *)
(* (ada::idna::is_label_valid): no leading combining mark, the rule of the *)
(* joiners and the Bidi rule (RFC 5893), each in the form that code gives  *)
(* it and with the tables that code holds.                                 *)
(***************************************************************************)
\* Bidi_Class as the parser holds it, where it is not L: NONE is the class of a
\* code point its table has no entry for
BidiClasses ==
  << 0,8,"BN",  9,9,"S",  10,10,"B",  11,11,"S",  12,12,"WS",  13,13,"B",  14,27,"BN",
    28,30,"B",  31,31,"S",  32,32,"WS",  33,34,"ON",  35,37,"ET",  38,42,"ON",  43,43,"ES",
    44,44,"CS",  45,45,"ES",  46,47,"CS",  48,57,"EN",  58,58,"CS",  59,64,"ON",  91,96,"ON",
    123,126,"ON",  127,132,"BN",  133,133,"B",  134,159,"BN",  160,160,"CS",  161,161,"ON",
    162,165,"ET",  166,169,"ON",  171,172,"ON",  173,173,"BN",  174,175,"ON",  176,177,"ET",
    178,179,"EN",  180,180,"ON",  182,184,"ON",  185,185,"EN",  187,191,"ON",  215,215,"ON",
    247,247,"ON",  697,698,"ON",  706,719,"ON",  722,735,"ON",  741,749,"ON",  751,767,"ON",
    768,879,"NSM",  884,885,"ON",  888,889,"NONE",  894,894,"ON",  896,899,"NONE",
    900,901,"ON",  903,903,"ON",  907,907,"NONE",  909,909,"NONE",  930,930,"NONE",
    1014,1014,"ON",  1155,1161,"NSM",  1328,1328,"NONE",  1367,1368,"NONE",  1418,1418,"ON",
    1419,1420,"NONE",  1421,1422,"ON",  1423,1423,"ET",  1424,1424,"NONE",  1425,1469,"NSM",
    1470,1470,"R",  1471,1471,"NSM",  1472,1472,"R",  1473,1474,"NSM",  1475,1475,"R",
    1476,1477,"NSM",  1478,1478,"R",  1479,1479,"NSM",  1480,1487,"NONE",  1488,1514,"R",
    1515,1518,"NONE",  1519,1524,"R",  1525,1535,"NONE",  1536,1541,"AN",  1542,1543,"ON",
    1544,1544,"AL",  1545,1546,"ET",  1547,1547,"AL",  1548,1548,"CS",  1549,1549,"AL",
    1550,1551,"ON",  1552,1562,"NSM",  1563,1564,"AL",  1565,1565,"NONE",  1566,1610,"AL",
    1611,1631,"NSM",  1632,1641,"AN",  1642,1642,"ET",  1643,1644,"AN",  1645,1647,"AL",
    1648,1648,"NSM",  1649,1749,"AL",  1750,1756,"NSM",  1757,1757,"AN",  1758,1758,"ON",
    1759,1764,"NSM",  1765,1766,"AL",  1767,1768,"NSM",  1769,1769,"ON",  1770,1773,"NSM",
    1774,1775,"AL",  1776,1785,"EN",  1786,1805,"AL",  1806,1806,"NONE",  1807,1808,"AL",
    1809,1809,"NSM",  1810,1839,"AL",  1840,1866,"NSM",  1867,1868,"NONE",  1869,1957,"AL",
    1958,1968,"NSM",  1969,1969,"AL",  1970,1983,"NONE",  1984,2026,"R",  2027,2035,"NSM",
    2036,2037,"R",  2038,2041,"ON",  2042,2042,"R",  2043,2044,"NONE",  2045,2045,"NSM",
    2046,2069,"R",  2070,2073,"NSM",  2074,2074,"R",  2075,2083,"NSM",  2084,2084,"R",
    2085,2087,"NSM",  2088,2088,"R",  2089,2093,"NSM",  2094,2095,"NONE",  2096,2110,"R",
    2111,2111,"NONE",  2112,2136,"R",  2137,2139,"NSM",  2140,2141,"NONE",  2142,2142,"R",
    2143,2143,"NONE",  2144,2154,"AL",  2155,2207,"NONE",  2208,2228,"AL",  2229,2229,"NONE",
    2230,2247,"AL",  2248,2258,"NONE",  2259,2273,"NSM",  2274,2274,"AN",  2275,2306,"NSM",
    2362,2362,"NSM",  2364,2364,"NSM",  2369,2376,"NSM",  2381,2381,"NSM",  2385,2391,"NSM",
    2402,2403,"NSM",  2433,2433,"NSM",  2436,2436,"NONE",  2445,2446,"NONE",  2449,2450,"NONE",
    2473,2473,"NONE",  2481,2481,"NONE",  2483,2485,"NONE",  2490,2491,"NONE",  2492,2492,"NSM",
    2497,2500,"NSM",  2501,2502,"NONE",  2505,2506,"NONE",  2509,2509,"NSM",  2511,2518,"NONE",
    2520,2523,"NONE",  2526,2526,"NONE",  2530,2531,"NSM",  2532,2533,"NONE",  2546,2547,"ET",
    2555,2555,"ET",  2558,2558,"NSM",  2559,2560,"NONE",  2561,2562,"NSM",  2564,2564,"NONE",
    2571,2574,"NONE",  2577,2578,"NONE",  2601,2601,"NONE",  2609,2609,"NONE",
    2612,2612,"NONE",  2615,2615,"NONE",  2618,2619,"NONE",  2620,2620,"NSM",  2621,2621,"NONE",
    2625,2626,"NSM",  2627,2630,"NONE",  2631,2632,"NSM",  2633,2634,"NONE",  2635,2637,"NSM",
    2638,2640,"NONE",  2641,2641,"NSM",  2642,2648,"NONE",  2653,2653,"NONE",  2655,2661,"NONE",
    2672,2673,"NSM",  2677,2677,"NSM",  2679,2688,"NONE",  2689,2690,"NSM",  2692,2692,"NONE",
    2702,2702,"NONE",  2706,2706,"NONE",  2729,2729,"NONE",  2737,2737,"NONE",
    2740,2740,"NONE",  2746,2747,"NONE",  2748,2748,"NSM",  2753,2757,"NSM",  2758,2758,"NONE",
    2759,2760,"NSM",  2762,2762,"NONE",  2765,2765,"NSM",  2766,2767,"NONE",  2769,2783,"NONE",
    2786,2787,"NSM",  2788,2789,"NONE",  2801,2801,"ET",  2802,2808,"NONE",  2810,2815,"NSM",
    2816,2816,"NONE",  2817,2817,"NSM",  2820,2820,"NONE",  2829,2830,"NONE",  2833,2834,"NONE",
    2857,2857,"NONE",  2865,2865,"NONE",  2868,2868,"NONE",  2874,2875,"NONE",  2876,2876,"NSM",
    2879,2879,"NSM",  2881,2884,"NSM",  2885,2886,"NONE",  2889,2890,"NONE",  2893,2893,"NSM",
    2894,2900,"NONE",  2901,2902,"NSM",  2904,2907,"NONE",  2910,2910,"NONE",  2914,2915,"NSM",
    2916,2917,"NONE",  2936,2945,"NONE",  2946,2946,"NSM",  2948,2948,"NONE",  2955,2957,"NONE",
    2961,2961,"NONE",  2966,2968,"NONE",  2971,2971,"NONE",  2973,2973,"NONE",
    2976,2978,"NONE",  2981,2983,"NONE",  2987,2989,"NONE",  3002,3005,"NONE",  3008,3008,"NSM",
    3011,3013,"NONE",  3017,3017,"NONE",  3021,3021,"NSM",  3022,3023,"NONE",  3025,3030,"NONE",
    3032,3045,"NONE",  3059,3064,"ON",  3065,3065,"ET",  3066,3066,"ON",  3067,3071,"NONE",
    3072,3072,"NSM",  3076,3076,"NSM",  3085,3085,"NONE",  3089,3089,"NONE",  3113,3113,"NONE",
    3130,3132,"NONE",  3134,3136,"NSM",  3141,3141,"NONE",  3142,3144,"NSM",  3145,3145,"NONE",
    3146,3149,"NSM",  3150,3156,"NONE",  3157,3158,"NSM",  3159,3159,"NONE",  3163,3167,"NONE",
    3170,3171,"NSM",  3172,3173,"NONE",  3184,3190,"NONE",  3192,3198,"ON",  3201,3201,"NSM",
    3213,3213,"NONE",  3217,3217,"NONE",  3241,3241,"NONE",  3252,3252,"NONE",
    3258,3259,"NONE",  3260,3260,"NSM",  3269,3269,"NONE",  3273,3273,"NONE",  3276,3277,"NSM",
    3278,3284,"NONE",  3287,3293,"NONE",  3295,3295,"NONE",  3298,3299,"NSM",  3300,3301,"NONE",
    3312,3312,"NONE",  3315,3327,"NONE",  3328,3329,"NSM",  3341,3341,"NONE",  3345,3345,"NONE",
    3387,3388,"NSM",  3393,3396,"NSM",  3397,3397,"NONE",  3401,3401,"NONE",  3405,3405,"NSM",
    3408,3411,"NONE",  3426,3427,"NSM",  3428,3429,"NONE",  3456,3456,"NONE",  3457,3457,"NSM",
    3460,3460,"NONE",  3479,3481,"NONE",  3506,3506,"NONE",  3516,3516,"NONE",
    3518,3519,"NONE",  3527,3529,"NONE",  3530,3530,"NSM",  3531,3534,"NONE",  3538,3540,"NSM",
    3541,3541,"NONE",  3542,3542,"NSM",  3543,3543,"NONE",  3552,3557,"NONE",  3568,3569,"NONE",
    3573,3584,"NONE",  3633,3633,"NSM",  3636,3642,"NSM",  3643,3646,"NONE",  3647,3647,"ET",
    3655,3662,"NSM",  3676,3712,"NONE",  3715,3715,"NONE",  3717,3717,"NONE",  3723,3723,"NONE",
    3748,3748,"NONE",  3750,3750,"NONE",  3761,3761,"NSM",  3764,3772,"NSM",  3774,3775,"NONE",
    3781,3781,"NONE",  3783,3783,"NONE",  3784,3789,"NSM",  3790,3791,"NONE",  3802,3803,"NONE",
    3808,3839,"NONE",  3864,3865,"NSM",  3893,3893,"NSM",  3895,3895,"NSM",  3897,3897,"NSM",
    3898,3901,"ON",  3912,3912,"NONE",  3949,3952,"NONE",  3953,3966,"NSM",  3968,3972,"NSM",
    3974,3975,"NSM",  3981,3991,"NSM",  3992,3992,"NONE",  3993,4028,"NSM",  4029,4029,"NONE",
    4038,4038,"NSM",  4045,4045,"NONE",  4059,4095,"NONE",  4141,4144,"NSM",  4146,4151,"NSM",
    4153,4154,"NSM",  4157,4158,"NSM",  4184,4185,"NSM",  4190,4192,"NSM",  4209,4212,"NSM",
    4226,4226,"NSM",  4229,4230,"NSM",  4237,4237,"NSM",  4253,4253,"NSM",  4294,4294,"NONE",
    4296,4300,"NONE",  4302,4303,"NONE",  4681,4681,"NONE",  4686,4687,"NONE",
    4695,4695,"NONE",  4697,4697,"NONE",  4702,4703,"NONE",  4745,4745,"NONE",
    4750,4751,"NONE",  4785,4785,"NONE",  4790,4791,"NONE",  4799,4799,"NONE",
    4801,4801,"NONE",  4806,4807,"NONE",  4823,4823,"NONE",  4881,4881,"NONE",
    4886,4887,"NONE",  4955,4956,"NONE",  4957,4959,"NSM",  4989,4991,"NONE",  5008,5017,"ON",
    5018,5023,"NONE",  5110,5111,"NONE",  5118,5119,"NONE",  5120,5120,"ON",  5760,5760,"WS",
    5787,5788,"ON",  5789,5791,"NONE",  5881,5887,"NONE",  5901,5901,"NONE",  5906,5908,"NSM",
    5909,5919,"NONE",  5938,5940,"NSM",  5943,5951,"NONE",  5970,5971,"NSM",  5972,5983,"NONE",
    5997,5997,"NONE",  6001,6001,"NONE",  6002,6003,"NSM",  6004,6015,"NONE",  6068,6069,"NSM",
    6071,6077,"NSM",  6086,6086,"NSM",  6089,6099,"NSM",  6107,6107,"ET",  6109,6109,"NSM",
    6110,6111,"NONE",  6122,6127,"NONE",  6128,6137,"ON",  6138,6143,"NONE",  6144,6154,"ON",
    6155,6157,"NSM",  6158,6158,"BN",  6159,6159,"NONE",  6170,6175,"NONE",  6265,6271,"NONE",
    6277,6278,"NSM",  6313,6313,"NSM",  6315,6319,"NONE",  6390,6399,"NONE",  6431,6431,"NONE",
    6432,6434,"NSM",  6439,6440,"NSM",  6444,6447,"NONE",  6450,6450,"NSM",  6457,6459,"NSM",
    6460,6463,"NONE",  6464,6464,"ON",  6465,6467,"NONE",  6468,6469,"ON",  6510,6511,"NONE",
    6517,6527,"NONE",  6572,6575,"NONE",  6602,6607,"NONE",  6619,6621,"NONE",  6622,6655,"ON",
    6679,6680,"NSM",  6683,6683,"NSM",  6684,6685,"NONE",  6742,6742,"NSM",  6744,6750,"NSM",
    6751,6751,"NONE",  6752,6752,"NSM",  6754,6754,"NSM",  6757,6764,"NSM",  6771,6780,"NSM",
    6781,6782,"NONE",  6783,6783,"NSM",  6794,6799,"NONE",  6810,6815,"NONE",  6830,6831,"NONE",
    6832,6848,"NSM",  6849,6911,"NONE",  6912,6915,"NSM",  6964,6964,"NSM",  6966,6970,"NSM",
    6972,6972,"NSM",  6978,6978,"NSM",  6988,6991,"NONE",  7019,7027,"NSM",  7037,7039,"NONE",
    7040,7041,"NSM",  7074,7077,"NSM",  7080,7081,"NSM",  7083,7085,"NSM",  7142,7142,"NSM",
    7144,7145,"NSM",  7149,7149,"NSM",  7151,7153,"NSM",  7156,7163,"NONE",  7212,7219,"NSM",
    7222,7223,"NSM",  7224,7226,"NONE",  7242,7244,"NONE",  7305,7311,"NONE",  7355,7356,"NONE",
    7368,7375,"NONE",  7376,7378,"NSM",  7380,7392,"NSM",  7394,7400,"NSM",  7405,7405,"NSM",
    7412,7412,"NSM",  7416,7417,"NSM",  7419,7423,"NONE",  7616,7673,"NSM",  7674,7674,"NONE",
    7675,7679,"NSM",  7958,7959,"NONE",  7966,7967,"NONE",  8006,8007,"NONE",  8014,8015,"NONE",
    8024,8024,"NONE",  8026,8026,"NONE",  8028,8028,"NONE",  8030,8030,"NONE",
    8062,8063,"NONE",  8117,8117,"NONE",  8125,8125,"ON",  8127,8129,"ON",  8133,8133,"NONE",
    8141,8143,"ON",  8148,8149,"NONE",  8156,8156,"NONE",  8157,8159,"ON",  8173,8175,"ON",
    8176,8177,"NONE",  8181,8181,"NONE",  8189,8190,"ON",  8191,8191,"NONE",  8192,8202,"WS",
    8203,8205,"BN",  8207,8207,"R",  8208,8231,"ON",  8232,8232,"WS",  8233,8233,"B",
    8234,8234,"LRE",  8235,8235,"RLE",  8236,8236,"PDF",  8237,8237,"LRO",  8238,8238,"RLO",
    8239,8239,"CS",  8240,8244,"ET",  8245,8259,"ON",  8260,8260,"CS",  8261,8286,"ON",
    8287,8287,"WS",  8288,8292,"BN",  8293,8293,"NONE",  8294,8294,"LRI",  8295,8295,"RLI",
    8296,8296,"FSI",  8297,8297,"PDI",  8298,8303,"BN",  8304,8304,"EN",  8306,8307,"NONE",
    8308,8313,"EN",  8314,8315,"ES",  8316,8318,"ON",  8320,8329,"EN",  8330,8331,"ES",
    8332,8334,"ON",  8335,8335,"NONE",  8349,8351,"NONE",  8352,8383,"ET",  8384,8399,"NONE",
    8400,8432,"NSM",  8433,8447,"NONE",  8448,8449,"ON",  8451,8454,"ON",  8456,8457,"ON",
    8468,8468,"ON",  8470,8472,"ON",  8478,8483,"ON",  8485,8485,"ON",  8487,8487,"ON",
    8489,8489,"ON",  8494,8494,"ET",  8506,8507,"ON",  8512,8516,"ON",  8522,8525,"ON",
    8528,8543,"ON",  8585,8587,"ON",  8588,8591,"NONE",  8592,8721,"ON",  8722,8722,"ES",
    8723,8723,"ET",  8724,9013,"ON",  9083,9108,"ON",  9110,9254,"ON",  9255,9279,"NONE",
    9280,9290,"ON",  9291,9311,"NONE",  9312,9351,"ON",  9352,9371,"EN",  9450,9899,"ON",
    9901,10239,"ON",  10496,11123,"ON",  11124,11125,"NONE",  11126,11157,"ON",
    11158,11158,"NONE",  11159,11263,"ON",  11311,11311,"NONE",  11359,11359,"NONE",
    11493,11498,"ON",  11503,11505,"NSM",  11508,11512,"NONE",  11513,11519,"ON",
    11558,11558,"NONE",  11560,11564,"NONE",  11566,11567,"NONE",  11624,11630,"NONE",
    11633,11646,"NONE",  11647,11647,"NSM",  11671,11679,"NONE",  11687,11687,"NONE",
    11695,11695,"NONE",  11703,11703,"NONE",  11711,11711,"NONE",  11719,11719,"NONE",
    11727,11727,"NONE",  11735,11735,"NONE",  11743,11743,"NONE",  11744,11775,"NSM",
    11776,11858,"ON",  11859,11903,"NONE",  11904,11929,"ON",  11930,11930,"NONE",
    11931,12019,"ON",  12020,12031,"NONE",  12032,12245,"ON",  12246,12271,"NONE",
    12272,12283,"ON",  12284,12287,"NONE",  12288,12288,"WS",  12289,12292,"ON",
    12296,12320,"ON",  12330,12333,"NSM",  12336,12336,"ON",  12342,12343,"ON",
    12349,12351,"ON",  12352,12352,"NONE",  12439,12440,"NONE",  12441,12442,"NSM",
    12443,12444,"ON",  12448,12448,"ON",  12539,12539,"ON",  12544,12548,"NONE",
    12592,12592,"NONE",  12687,12687,"NONE",  12736,12771,"ON",  12772,12783,"NONE",
    12829,12830,"ON",  12831,12831,"NONE",  12880,12895,"ON",  12924,12926,"ON",
    12977,12991,"ON",  13004,13007,"ON",  13175,13178,"ON",  13278,13279,"ON",
    13311,13311,"ON",  19904,19967,"ON",  40957,40959,"NONE",  42125,42127,"NONE",
    42128,42182,"ON",  42183,42191,"NONE",  42509,42511,"ON",  42540,42559,"NONE",
    42607,42610,"NSM",  42611,42611,"ON",  42612,42621,"NSM",  42622,42623,"ON",
    42654,42655,"NSM",  42736,42737,"NSM",  42744,42751,"NONE",  42752,42785,"ON",
    42888,42888,"ON",  42944,42945,"NONE",  42955,42996,"NONE",  43010,43010,"NSM",
    43014,43014,"NSM",  43019,43019,"NSM",  43045,43046,"NSM",  43048,43051,"ON",
    43052,43052,"NSM",  43053,43055,"NONE",  43064,43065,"ET",  43066,43071,"NONE",
    43124,43127,"ON",  43128,43135,"NONE",  43204,43205,"NSM",  43206,43213,"NONE",
    43226,43231,"NONE",  43232,43249,"NSM",  43263,43263,"NSM",  43302,43309,"NSM",
    43335,43345,"NSM",  43348,43358,"NONE",  43389,43391,"NONE",  43392,43394,"NSM",
    43443,43443,"NSM",  43446,43449,"NSM",  43452,43453,"NSM",  43470,43470,"NONE",
    43482,43485,"NONE",  43493,43493,"NSM",  43519,43519,"NONE",  43561,43566,"NSM",
    43569,43570,"NSM",  43573,43574,"NSM",  43575,43583,"NONE",  43587,43587,"NSM",
    43596,43596,"NSM",  43598,43599,"NONE",  43610,43611,"NONE",  43644,43644,"NSM",
    43696,43696,"NSM",  43698,43700,"NSM",  43703,43704,"NSM",  43710,43711,"NSM",
    43713,43713,"NSM",  43715,43738,"NONE",  43756,43757,"NSM",  43766,43766,"NSM",
    43767,43776,"NONE",  43783,43784,"NONE",  43791,43792,"NONE",  43799,43807,"NONE",
    43815,43815,"NONE",  43823,43823,"NONE",  43882,43883,"ON",  43884,43887,"NONE",
    44005,44005,"NSM",  44008,44008,"NSM",  44013,44013,"NSM",  44014,44015,"NONE",
    44026,44031,"NONE",  55204,55215,"NONE",  55239,55242,"NONE",  55292,55295,"NONE",
    64110,64111,"NONE",  64218,64255,"NONE",  64263,64274,"NONE",  64280,64284,"NONE",
    64285,64285,"R",  64286,64286,"NSM",  64287,64296,"R",  64297,64297,"ES",  64298,64310,"R",
    64311,64311,"NONE",  64312,64316,"R",  64317,64317,"NONE",  64318,64318,"R",
    64319,64319,"NONE",  64320,64321,"R",  64322,64322,"NONE",  64323,64324,"R",
    64325,64325,"NONE",  64326,64335,"R",  64336,64449,"AL",  64450,64466,"NONE",
    64467,64829,"AL",  64830,64831,"ON",  64832,64847,"NONE",  64848,64911,"AL",
    64912,64913,"NONE",  64914,64967,"AL",  64968,65007,"NONE",  65008,65020,"AL",
    65021,65021,"ON",  65022,65023,"NONE",  65024,65039,"NSM",  65040,65049,"ON",
    65050,65055,"NONE",  65056,65071,"NSM",  65072,65103,"ON",  65104,65104,"CS",
    65105,65105,"ON",  65106,65106,"CS",  65107,65107,"NONE",  65108,65108,"ON",
    65109,65109,"CS",  65110,65118,"ON",  65119,65119,"ET",  65120,65121,"ON",
    65122,65123,"ES",  65124,65126,"ON",  65127,65127,"NONE",  65128,65128,"ON",
    65129,65130,"ET",  65131,65131,"ON",  65132,65135,"NONE",  65136,65140,"AL",
    65141,65141,"NONE",  65142,65276,"AL",  65277,65278,"NONE",  65279,65279,"BN",
    65280,65280,"NONE",  65281,65282,"ON",  65283,65285,"ET",  65286,65290,"ON",
    65291,65291,"ES",  65292,65292,"CS",  65293,65293,"ES",  65294,65295,"CS",
    65296,65305,"EN",  65306,65306,"CS",  65307,65312,"ON",  65339,65344,"ON",
    65371,65381,"ON",  65471,65473,"NONE",  65480,65481,"NONE",  65488,65489,"NONE",
    65496,65497,"NONE",  65501,65503,"NONE",  65504,65505,"ET",  65506,65508,"ON",
    65509,65510,"ET",  65511,65511,"NONE",  65512,65518,"ON",  65519,65528,"NONE",
    65529,65533,"ON",  65534,65535,"NONE",  65548,65548,"NONE",  65575,65575,"NONE",
    65595,65595,"NONE",  65598,65598,"NONE",  65614,65615,"NONE",  65630,65663,"NONE",
    65787,65791,"NONE",  65793,65793,"ON",  65795,65798,"NONE",  65844,65846,"NONE",
    65856,65932,"ON",  65935,65935,"NONE",  65936,65948,"ON",  65949,65951,"NONE",
    65952,65952,"ON",  65953,65999,"NONE",  66045,66045,"NSM",  66046,66175,"NONE",
    66205,66207,"NONE",  66257,66271,"NONE",  66272,66272,"NSM",  66273,66299,"EN",
    66300,66303,"NONE",  66340,66348,"NONE",  66379,66383,"NONE",  66422,66426,"NSM",
    66427,66431,"NONE",  66462,66462,"NONE",  66500,66503,"NONE",  66518,66559,"NONE",
    66718,66719,"NONE",  66730,66735,"NONE",  66772,66775,"NONE",  66812,66815,"NONE",
    66856,66863,"NONE",  66916,66926,"NONE",  66928,67071,"NONE",  67383,67391,"NONE",
    67414,67423,"NONE",  67432,67583,"NONE",  67584,67589,"R",  67590,67591,"NONE",
    67592,67592,"R",  67593,67593,"NONE",  67594,67637,"R",  67638,67638,"NONE",
    67639,67640,"R",  67641,67643,"NONE",  67644,67644,"R",  67645,67646,"NONE",
    67647,67669,"R",  67670,67670,"NONE",  67671,67742,"R",  67743,67750,"NONE",
    67751,67759,"R",  67760,67807,"NONE",  67808,67826,"R",  67827,67827,"NONE",
    67828,67829,"R",  67830,67834,"NONE",  67835,67867,"R",  67868,67870,"NONE",
    67871,67871,"ON",  67872,67897,"R",  67898,67902,"NONE",  67903,67903,"R",
    67904,67967,"NONE",  67968,68023,"R",  68024,68027,"NONE",  68028,68047,"R",
    68048,68049,"NONE",  68050,68096,"R",  68097,68099,"NSM",  68100,68100,"NONE",
    68101,68102,"NSM",  68103,68107,"NONE",  68108,68111,"NSM",  68112,68115,"R",
    68116,68116,"NONE",  68117,68119,"R",  68120,68120,"NONE",  68121,68149,"R",
    68150,68151,"NONE",  68152,68154,"NSM",  68155,68158,"NONE",  68159,68159,"NSM",
    68160,68168,"R",  68169,68175,"NONE",  68176,68184,"R",  68185,68191,"NONE",
    68192,68255,"R",  68256,68287,"NONE",  68288,68324,"R",  68325,68326,"NSM",
    68327,68330,"NONE",  68331,68342,"R",  68343,68351,"NONE",  68352,68405,"R",
    68406,68408,"NONE",  68409,68415,"ON",  68416,68437,"R",  68438,68439,"NONE",
    68440,68466,"R",  68467,68471,"NONE",  68472,68497,"R",  68498,68504,"NONE",
    68505,68508,"R",  68509,68520,"NONE",  68521,68527,"R",  68528,68607,"NONE",
    68608,68680,"R",  68681,68735,"NONE",  68736,68786,"R",  68787,68799,"NONE",
    68800,68850,"R",  68851,68857,"NONE",  68858,68863,"R",  68864,68899,"AL",
    68900,68903,"NSM",  68904,68911,"NONE",  68912,68921,"AN",  68922,69215,"NONE",
    69216,69246,"AN",  69247,69247,"NONE",  69248,69289,"R",  69290,69290,"NONE",
    69291,69292,"NSM",  69293,69293,"R",  69294,69295,"NONE",  69296,69297,"R",
    69298,69375,"NONE",  69376,69415,"R",  69416,69423,"NONE",  69424,69445,"AL",
    69446,69456,"NSM",  69457,69465,"AL",  69466,69551,"NONE",  69552,69579,"R",
    69580,69599,"NONE",  69600,69622,"R",  69623,69631,"NONE",  69633,69633,"NSM",
    69688,69702,"NSM",  69710,69713,"NONE",  69714,69733,"ON",  69744,69758,"NONE",
    69759,69761,"NSM",  69811,69814,"NSM",  69817,69818,"NSM",  69826,69836,"NONE",
    69838,69839,"NONE",  69865,69871,"NONE",  69882,69887,"NONE",  69888,69890,"NSM",
    69927,69931,"NSM",  69933,69940,"NSM",  69941,69941,"NONE",  69960,69967,"NONE",
    70003,70003,"NSM",  70007,70015,"NONE",  70016,70017,"NSM",  70070,70078,"NSM",
    70089,70092,"NSM",  70095,70095,"NSM",  70112,70112,"NONE",  70133,70143,"NONE",
    70162,70162,"NONE",  70191,70193,"NSM",  70196,70196,"NSM",  70198,70199,"NSM",
    70206,70206,"NSM",  70207,70271,"NONE",  70279,70279,"NONE",  70281,70281,"NONE",
    70286,70286,"NONE",  70302,70302,"NONE",  70314,70319,"NONE",  70367,70367,"NSM",
    70371,70378,"NSM",  70379,70383,"NONE",  70394,70399,"NONE",  70400,70401,"NSM",
    70404,70404,"NONE",  70413,70414,"NONE",  70417,70418,"NONE",  70441,70441,"NONE",
    70449,70449,"NONE",  70452,70452,"NONE",  70458,70458,"NONE",  70459,70460,"NSM",
    70464,70464,"NSM",  70469,70470,"NONE",  70473,70474,"NONE",  70478,70479,"NONE",
    70481,70486,"NONE",  70488,70492,"NONE",  70500,70501,"NONE",  70502,70508,"NSM",
    70509,70511,"NONE",  70512,70516,"NSM",  70517,70655,"NONE",  70712,70719,"NSM",
    70722,70724,"NSM",  70726,70726,"NSM",  70748,70748,"NONE",  70750,70750,"NSM",
    70754,70783,"NONE",  70835,70840,"NSM",  70842,70842,"NSM",  70847,70848,"NSM",
    70850,70851,"NSM",  70856,70863,"NONE",  70874,71039,"NONE",  71090,71093,"NSM",
    71094,71095,"NONE",  71100,71101,"NSM",  71103,71104,"NSM",  71132,71133,"NSM",
    71134,71167,"NONE",  71219,71226,"NSM",  71229,71229,"NSM",  71231,71232,"NSM",
    71237,71247,"NONE",  71258,71263,"NONE",  71264,71276,"ON",  71277,71295,"NONE",
    71339,71339,"NSM",  71341,71341,"NSM",  71344,71349,"NSM",  71351,71351,"NSM",
    71353,71359,"NONE",  71370,71423,"NONE",  71451,71452,"NONE",  71453,71455,"NSM",
    71458,71461,"NSM",  71463,71467,"NSM",  71468,71471,"NONE",  71488,71679,"NONE",
    71727,71735,"NSM",  71737,71738,"NSM",  71740,71839,"NONE",  71923,71934,"NONE",
    71943,71944,"NONE",  71946,71947,"NONE",  71956,71956,"NONE",  71959,71959,"NONE",
    71990,71990,"NONE",  71993,71994,"NONE",  71995,71996,"NSM",  71998,71998,"NSM",
    72003,72003,"NSM",  72007,72015,"NONE",  72026,72095,"NONE",  72104,72105,"NONE",
    72148,72151,"NSM",  72152,72153,"NONE",  72154,72155,"NSM",  72160,72160,"NSM",
    72165,72191,"NONE",  72193,72198,"NSM",  72201,72202,"NSM",  72243,72248,"NSM",
    72251,72254,"NSM",  72263,72263,"NSM",  72264,72271,"NONE",  72273,72278,"NSM",
    72281,72283,"NSM",  72330,72342,"NSM",  72344,72345,"NSM",  72355,72383,"NONE",
    72441,72703,"NONE",  72713,72713,"NONE",  72752,72758,"NSM",  72759,72759,"NONE",
    72760,72765,"NSM",  72774,72783,"NONE",  72813,72815,"NONE",  72848,72849,"NONE",
    72850,72871,"NSM",  72872,72872,"NONE",  72874,72880,"NSM",  72882,72883,"NSM",
    72885,72886,"NSM",  72887,72959,"NONE",  72967,72967,"NONE",  72970,72970,"NONE",
    73009,73014,"NSM",  73015,73017,"NONE",  73018,73018,"NSM",  73019,73019,"NONE",
    73020,73021,"NSM",  73022,73022,"NONE",  73023,73029,"NSM",  73031,73031,"NSM",
    73032,73039,"NONE",  73050,73055,"NONE",  73062,73062,"NONE",  73065,73065,"NONE",
    73103,73103,"NONE",  73104,73105,"NSM",  73106,73106,"NONE",  73109,73109,"NSM",
    73111,73111,"NSM",  73113,73119,"NONE",  73130,73439,"NONE",  73459,73460,"NSM",
    73465,73647,"NONE",  73649,73663,"NONE",  73685,73692,"ON",  73693,73696,"ET",
    73697,73713,"ON",  73714,73726,"NONE",  74650,74751,"NONE",  74863,74863,"NONE",
    74869,74879,"NONE",  75076,77823,"NONE",  78895,78895,"NONE",  78905,82943,"NONE",
    83527,92159,"NONE",  92729,92735,"NONE",  92767,92767,"NONE",  92778,92781,"NONE",
    92784,92879,"NONE",  92910,92911,"NONE",  92912,92916,"NSM",  92918,92927,"NONE",
    92976,92982,"NSM",  92998,93007,"NONE",  93018,93018,"NONE",  93026,93026,"NONE",
    93048,93052,"NONE",  93072,93759,"NONE",  93851,93951,"NONE",  94027,94030,"NONE",
    94031,94031,"NSM",  94088,94094,"NONE",  94095,94098,"NSM",  94112,94175,"NONE",
    94178,94178,"ON",  94180,94180,"NSM",  94181,94191,"NONE",  94194,94207,"NONE",
    100344,100351,"NONE",  101590,101631,"NONE",  101641,110591,"NONE",  110879,110927,"NONE",
    110931,110947,"NONE",  110952,110959,"NONE",  111356,113663,"NONE",  113771,113775,"NONE",
    113789,113791,"NONE",  113801,113807,"NONE",  113818,113819,"NONE",  113821,113822,"NSM",
    113824,113827,"BN",  113828,118783,"NONE",  119030,119039,"NONE",  119079,119080,"NONE",
    119143,119145,"NSM",  119155,119162,"BN",  119163,119170,"NSM",  119173,119179,"NSM",
    119210,119213,"NSM",  119273,119295,"NONE",  119296,119361,"ON",  119362,119364,"NSM",
    119365,119365,"ON",  119366,119519,"NONE",  119540,119551,"NONE",  119552,119638,"ON",
    119639,119647,"NONE",  119673,119807,"NONE",  119893,119893,"NONE",  119965,119965,"NONE",
    119968,119969,"NONE",  119971,119972,"NONE",  119975,119976,"NONE",  119981,119981,"NONE",
    119994,119994,"NONE",  119996,119996,"NONE",  120004,120004,"NONE",  120070,120070,"NONE",
    120075,120076,"NONE",  120085,120085,"NONE",  120093,120093,"NONE",  120122,120122,"NONE",
    120127,120127,"NONE",  120133,120133,"NONE",  120135,120137,"NONE",  120145,120145,"NONE",
    120486,120487,"NONE",  120539,120539,"ON",  120597,120597,"ON",  120655,120655,"ON",
    120713,120713,"ON",  120771,120771,"ON",  120780,120781,"NONE",  120782,120831,"EN",
    121344,121398,"NSM",  121403,121452,"NSM",  121461,121461,"NSM",  121476,121476,"NSM",
    121484,121498,"NONE",  121499,121503,"NSM",  121504,121504,"NONE",  121505,121519,"NSM",
    121520,122879,"NONE",  122880,122886,"NSM",  122887,122887,"NONE",  122888,122904,"NSM",
    122905,122906,"NONE",  122907,122913,"NSM",  122914,122914,"NONE",  122915,122916,"NSM",
    122917,122917,"NONE",  122918,122922,"NSM",  122923,123135,"NONE",  123181,123183,"NONE",
    123184,123190,"NSM",  123198,123199,"NONE",  123210,123213,"NONE",  123216,123583,"NONE",
    123628,123631,"NSM",  123642,123646,"NONE",  123647,123647,"ET",  123648,124927,"NONE",
    124928,125124,"R",  125125,125126,"NONE",  125127,125135,"R",  125136,125142,"NSM",
    125143,125183,"NONE",  125184,125251,"R",  125252,125258,"NSM",  125259,125259,"R",
    125260,125263,"NONE",  125264,125273,"R",  125274,125277,"NONE",  125278,125279,"R",
    125280,126064,"NONE",  126065,126132,"AL",  126133,126208,"NONE",  126209,126269,"AL",
    126270,126463,"NONE",  126464,126467,"AL",  126468,126468,"NONE",  126469,126495,"AL",
    126496,126496,"NONE",  126497,126498,"AL",  126499,126499,"NONE",  126500,126500,"AL",
    126501,126502,"NONE",  126503,126503,"AL",  126504,126504,"NONE",  126505,126514,"AL",
    126515,126515,"NONE",  126516,126519,"AL",  126520,126520,"NONE",  126521,126521,"AL",
    126522,126522,"NONE",  126523,126523,"AL",  126524,126529,"NONE",  126530,126530,"AL",
    126531,126534,"NONE",  126535,126535,"AL",  126536,126536,"NONE",  126537,126537,"AL",
    126538,126538,"NONE",  126539,126539,"AL",  126540,126540,"NONE",  126541,126543,"AL",
    126544,126544,"NONE",  126545,126546,"AL",  126547,126547,"NONE",  126548,126548,"AL",
    126549,126550,"NONE",  126551,126551,"AL",  126552,126552,"NONE",  126553,126553,"AL",
    126554,126554,"NONE",  126555,126555,"AL",  126556,126556,"NONE",  126557,126557,"AL",
    126558,126558,"NONE",  126559,126559,"AL",  126560,126560,"NONE",  126561,126562,"AL",
    126563,126563,"NONE",  126564,126564,"AL",  126565,126566,"NONE",  126567,126570,"AL",
    126571,126571,"NONE",  126572,126578,"AL",  126579,126579,"NONE",  126580,126583,"AL",
    126584,126584,"NONE",  126585,126588,"AL",  126589,126589,"NONE",  126590,126590,"AL",
    126591,126591,"NONE",  126592,126601,"AL",  126602,126602,"NONE",  126603,126619,"AL",
    126620,126624,"NONE",  126625,126627,"AL",  126628,126628,"NONE",  126629,126633,"AL",
    126634,126634,"NONE",  126635,126651,"AL",  126652,126703,"NONE",  126704,126705,"ON",
    126706,126975,"NONE",  126976,127019,"ON",  127020,127023,"NONE",  127024,127123,"ON",
    127124,127135,"NONE",  127136,127150,"ON",  127151,127152,"NONE",  127153,127167,"ON",
    127168,127168,"NONE",  127169,127183,"ON",  127184,127184,"NONE",  127185,127221,"ON",
    127222,127231,"NONE",  127232,127242,"EN",  127243,127247,"ON",  127279,127279,"ON",
    127338,127343,"ON",  127405,127405,"ON",  127406,127461,"NONE",  127491,127503,"NONE",
    127548,127551,"NONE",  127561,127567,"NONE",  127570,127583,"NONE",  127584,127589,"ON",
    127590,127743,"NONE",  127744,128727,"ON",  128728,128735,"NONE",  128736,128748,"ON",
    128749,128751,"NONE",  128752,128764,"ON",  128765,128767,"NONE",  128768,128883,"ON",
    128884,128895,"NONE",  128896,128984,"ON",  128985,128991,"NONE",  128992,129003,"ON",
    129004,129023,"NONE",  129024,129035,"ON",  129036,129039,"NONE",  129040,129095,"ON",
    129096,129103,"NONE",  129104,129113,"ON",  129114,129119,"NONE",  129120,129159,"ON",
    129160,129167,"NONE",  129168,129197,"ON",  129198,129199,"NONE",  129200,129201,"ON",
    129202,129279,"NONE",  129280,129400,"ON",  129401,129401,"NONE",  129402,129483,"ON",
    129484,129484,"NONE",  129485,129619,"ON",  129620,129631,"NONE",  129632,129645,"ON",
    129646,129647,"NONE",  129648,129652,"ON",  129653,129655,"NONE",  129656,129658,"ON",
    129659,129663,"NONE",  129664,129670,"ON",  129671,129679,"NONE",  129680,129704,"ON",
    129705,129711,"NONE",  129712,129718,"ON",  129719,129727,"NONE",  129728,129730,"ON",
    129731,129743,"NONE",  129744,129750,"ON",  129751,129791,"NONE",  129792,129938,"ON",
    129939,129939,"NONE",  129940,129994,"ON",  129995,130031,"NONE",  130032,130041,"EN",
    130042,131071,"NONE",  173790,173823,"NONE",  177973,177983,"NONE",  178206,178207,"NONE",
    183970,183983,"NONE",  191457,194559,"NONE",  195102,196607,"NONE",  201547,917504,"NONE",
    917505,917505,"BN",  917506,917535,"NONE",  917536,917631,"BN",  917632,917759,"NONE",
    917760,917999,"NSM",  918000,983039,"NONE",  1048574,1048575,"NONE",  1114110,1114111,"NONE" >>

\* Joining_Type R, L and D, as the parser holds it
JoiningTypes ==
  << 1568,1568,"D",  1570,1573,"R",  1574,1574,"D",  1575,1575,"R",  1576,1576,"D",
    1577,1577,"R",  1578,1582,"D",  1583,1586,"R",  1587,1599,"D",  1601,1607,"D",
    1608,1608,"R",  1609,1610,"D",  1646,1647,"D",  1649,1651,"R",  1653,1655,"R",
    1656,1671,"D",  1672,1689,"R",  1690,1727,"D",  1728,1728,"R",  1729,1730,"D",
    1731,1739,"R",  1740,1740,"D",  1741,1741,"R",  1742,1742,"D",  1743,1743,"R",
    1744,1745,"D",  1746,1747,"R",  1749,1749,"R",  1774,1775,"R",  1786,1788,"D",
    1791,1791,"D",  1808,1808,"R",  1810,1812,"D",  1813,1817,"R",  1818,1821,"D",
    1822,1822,"R",  1823,1831,"D",  1832,1832,"R",  1833,1833,"D",  1834,1834,"R",
    1835,1835,"D",  1836,1836,"R",  1837,1838,"D",  1839,1839,"R",  1869,1869,"R",
    1870,1880,"D",  1881,1883,"R",  1884,1894,"D",  2128,2131,"D",  2132,2132,"R",
    2133,2133,"D",  2208,2208,"D",  2210,2217,"D",  2218,2220,"R",  6151,6151,"D",
    6176,6263,"D",  6279,6312,"D",  6314,6314,"D",  43072,43121,"D",  43122,43122,"L" >>

\* the viramas (Canonical_Combining_Class 9) the parser holds, as ranges
Viramas ==
  << 2381,2381,  2509,2509,  2637,2637,  2765,2765,  2893,2893,  3021,3021,  3149,3149,
    3277,3277,  3387,3388,  3405,3405,  3530,3530,  3642,3642,  3770,3770,  3972,3972,
    4153,4154,  5908,5908,  5940,5940,  6098,6098,  6752,6752,  6980,6980,  7082,7083,
    7154,7155,  11647,11647,  43014,43014,  43052,43052,  43204,43204,  43347,43347,
    43456,43456,  43766,43766,  44013,44013,  68159,68159,  69702,69702,  69759,69759,
    69817,69817,  69939,69940,  70080,70080,  70197,70197,  70378,70378,  70477,70477,
    70722,70722,  70850,70850,  71103,71103,  71231,71231,  71350,71350,  71467,71467,
    71737,71737,  71997,71998,  72160,72160,  72244,72244,  72263,72263,  72345,72345,
    72767,72767,  73028,73029,  73111,73111 >>

\* the combining marks (General_Category Mn, Mc, Me) the parser holds, as ranges
Marks ==
  << 768,879,  1155,1161,  1425,1469,  1471,1471,  1473,1474,  1476,1477,  1479,1479,  1552,1562,
    1611,1631,  1648,1648,  1750,1756,  1759,1764,  1767,1768,  1770,1773,  1809,1809,
    1840,1866,  1958,1968,  2027,2035,  2045,2045,  2070,2073,  2075,2083,  2085,2087,
    2089,2093,  2137,2139,  2259,2273,  2275,2307,  2362,2364,  2366,2383,  2385,2391,
    2402,2403,  2433,2435,  2492,2492,  2494,2500,  2503,2504,  2507,2509,  2519,2519,
    2530,2531,  2558,2558,  2561,2563,  2620,2620,  2622,2626,  2631,2632,  2635,2637,
    2641,2641,  2672,2673,  2677,2677,  2689,2691,  2748,2748,  2750,2757,  2759,2761,
    2763,2765,  2786,2787,  2810,2815,  2817,2819,  2876,2876,  2878,2884,  2887,2888,
    2891,2893,  2901,2903,  2914,2915,  2946,2946,  3006,3010,  3014,3016,  3018,3021,
    3031,3031,  3072,3076,  3134,3140,  3142,3144,  3146,3149,  3157,3158,  3170,3171,
    3201,3203,  3260,3260,  3262,3268,  3270,3272,  3274,3277,  3285,3286,  3298,3299,
    3328,3331,  3387,3388,  3390,3396,  3398,3400,  3402,3405,  3415,3415,  3426,3427,
    3457,3459,  3530,3530,  3535,3540,  3542,3542,  3544,3551,  3570,3571,  3633,3633,
    3636,3642,  3655,3662,  3761,3761,  3764,3772,  3784,3789,  3864,3865,  3893,3893,
    3895,3895,  3897,3897,  3902,3903,  3953,3972,  3974,3975,  3981,3991,  3993,4028,
    4038,4038,  4139,4158,  4182,4185,  4190,4192,  4194,4196,  4199,4205,  4209,4212,
    4226,4237,  4239,4239,  4250,4253,  4957,4959,  5906,5908,  5938,5940,  5970,5971,
    6002,6003,  6068,6099,  6109,6109,  6155,6157,  6277,6278,  6313,6313,  6432,6443,
    6448,6459,  6679,6683,  6741,6750,  6752,6780,  6783,6783,  6832,6848,  6912,6916,
    6964,6980,  7019,7027,  7040,7042,  7073,7085,  7142,7155,  7204,7223,  7376,7378,
    7380,7400,  7405,7405,  7412,7412,  7415,7417,  7616,7673,  7675,7679,  8400,8432,
    11503,11505,  11647,11647,  11744,11775,  12330,12335,  12441,12442,  42607,42610,
    42612,42621,  42654,42655,  42736,42737,  43010,43010,  43014,43014,  43019,43019,
    43043,43047,  43052,43052,  43136,43137,  43188,43205,  43232,43249,  43263,43263,
    43302,43309,  43335,43347,  43392,43395,  43443,43456,  43493,43493,  43561,43574,
    43587,43587,  43596,43597,  43643,43645,  43696,43696,  43698,43700,  43703,43704,
    43710,43711,  43713,43713,  43755,43759,  43765,43766,  44003,44010,  44012,44013,
    64286,64286,  65024,65039,  65056,65071,  66045,66045,  66272,66272,  66422,66426,
    68097,68099,  68101,68102,  68108,68111,  68152,68154,  68159,68159,  68325,68326,
    68900,68903,  69291,69292,  69446,69456,  69632,69634,  69688,69702,  69759,69762,
    69808,69818,  69888,69890,  69927,69940,  69957,69958,  70003,70003,  70016,70018,
    70067,70080,  70089,70092,  70094,70095,  70188,70199,  70206,70206,  70367,70378,
    70400,70403,  70459,70460,  70462,70468,  70471,70472,  70475,70477,  70487,70487,
    70498,70499,  70502,70508,  70512,70516,  70709,70726,  70750,70750,  70832,70851,
    71087,71093,  71096,71104,  71132,71133,  71216,71232,  71339,71351,  71453,71467,
    71724,71738,  71984,71989,  71991,71992,  71995,71998,  72000,72000,  72002,72003,
    72145,72151,  72154,72160,  72164,72164,  72193,72202,  72243,72249,  72251,72254,
    72263,72263,  72273,72283,  72330,72345,  72751,72758,  72760,72767,  72850,72871,
    72873,72886,  73009,73014,  73018,73018,  73020,73021,  73023,73029,  73031,73031,
    73098,73102,  73104,73105,  73107,73111,  73459,73462,  92912,92916,  92976,92982,
    94031,94031,  94033,94087,  94095,94098,  94180,94180,  94192,94193,  113821,113822,
    119141,119145,  119149,119154,  119163,119170,  119173,119179,  119210,119213,
    119362,119364,  121344,121398,  121403,121452,  121461,121461,  121476,121476,
    121499,121503,  121505,121519,  122880,122886,  122888,122904,  122907,122913,
    122915,122916,  122918,122922,  123184,123190,  123628,123631,  125136,125142,
    125252,125258,  917760,917999 >>

\* the Bidi rule, for a non-empty label without joiner.  Only a label with a
\* code point of class R, AL or AN is checked, and it is a left-to-right label
\* when its first code point has class L, a right-to-left label otherwise; end
\* is the position of its last code point that is not a nonspacing mark.  The
\* loop over a left-to-right label stops before end.
BidiRule(label) ==
  LET class  == [i \in 1..Len(label) |-> ValueIn(BidiClasses, label[i], "L")] \o <<>>
      others == { i \in 1..Len(label) : class[i] # "NSM" }
      end    == Greatest(others)
  IN  /\ others # {}
      /\ (\E i \in 1..Len(label) : class[i] \in {"R", "AL", "AN"})
         => IF class[1] = "L"
            THEN \A i \in 1..(end - 1) :
                   class[i] \in {"L", "EN", "ES", "CS", "ET", "ON", "BN", "NSM"}
            ELSE /\ \A i \in 1..end :
                      class[i] \in {"R", "AL", "AN", "EN", "ES", "CS", "ET", "ON", "BN", "NSM"}
                 /\ class[end] \in {"R", "AL", "EN", "AN"}
                 /\ ~(\E i \in 1..end : class[i] = "EN" /\ \E j \in 1..end : class[j] = "AN")

\* the rule of the joiners, decided at the first joiner i of the label: a virama
\* before it; or, for U+200C, some code point of joining type L or D before it
\* and some code point of joining type R or D after it
JoinersOK(label, i) ==
  \/ i > 1 /\ InRanges(Viramas, label[i - 1])
  \/ /\ label[i] = 8204
     /\ \E j \in 1..(i - 1) : ValueIn(JoiningTypes, label[j], "U") \in {"L", "D"}
     /\ \E j \in (i + 1)..Len(label) : ValueIn(JoiningTypes, label[j], "U") \in {"R", "D"}

\* is_label_valid: a label with a joiner is decided by its first joiner alone
IsLabelValid(label) ==
  LET joiners == { i \in 1..Len(label) : label[i] \in {8204, 8205} }
  IN  \/ Len(label) = 0
      \/ /\ ~InRanges(Marks, label[1])
         /\ IF joiners # {} THEN JoinersOK(label, Least(joiners)) ELSE BidiRule(label)

(***************************************************************************)
(* The mapping of UTS #46 (IdnaMappingTable.txt, with UseSTD3ASCIIRules    *)
(* false and Transitional_Processing false).  A code point in none of the  *)
(* tables is valid and maps to itself.                                     *)
(***************************************************************************)
\* status disallowed, as ranges
IdnaDisallowed ==
  << 128,159,  888,889,  896,899,  907,907,  909,909,  930,930,  1216,1216,  1328,1328,
    1367,1368,  1419,1420,  1424,1424,  1480,1487,  1515,1518,  1525,1541,  1564,1564,
    1757,1757,  1806,1807,  1867,1868,  1970,1983,  2043,2044,  2094,2095,  2111,2111,
    2140,2141,  2143,2143,  2155,2159,  2191,2199,  2274,2274,  2436,2436,  2445,2446,
    2449,2450,  2473,2473,  2481,2481,  2483,2485,  2490,2491,  2501,2502,  2505,2506,
    2511,2518,  2520,2523,  2526,2526,  2532,2533,  2559,2560,  2564,2564,  2571,2574,
    2577,2578,  2601,2601,  2609,2609,  2612,2612,  2615,2615,  2618,2619,  2621,2621,
    2627,2630,  2633,2634,  2638,2640,  2642,2648,  2653,2653,  2655,2661,  2679,2688,
    2692,2692,  2702,2702,  2706,2706,  2729,2729,  2737,2737,  2740,2740,  2746,2747,
    2758,2758,  2762,2762,  2766,2767,  2769,2783,  2788,2789,  2802,2808,  2816,2816,
    2820,2820,  2829,2830,  2833,2834,  2857,2857,  2865,2865,  2868,2868,  2874,2875,
    2885,2886,  2889,2890,  2894,2900,  2904,2907,  2910,2910,  2916,2917,  2936,2945,
    2948,2948,  2955,2957,  2961,2961,  2966,2968,  2971,2971,  2973,2973,  2976,2978,
    2981,2983,  2987,2989,  3002,3005,  3011,3013,  3017,3017,  3022,3023,  3025,3030,
    3032,3045,  3067,3071,  3085,3085,  3089,3089,  3113,3113,  3130,3131,  3141,3141,
    3145,3145,  3150,3156,  3159,3159,  3163,3164,  3166,3167,  3172,3173,  3184,3190,
    3213,3213,  3217,3217,  3241,3241,  3252,3252,  3258,3259,  3269,3269,  3273,3273,
    3278,3284,  3287,3292,  3295,3295,  3300,3301,  3312,3312,  3316,3327,  3341,3341,
    3345,3345,  3397,3397,  3401,3401,  3408,3411,  3428,3429,  3456,3456,  3460,3460,
    3479,3481,  3506,3506,  3516,3516,  3518,3519,  3527,3529,  3531,3534,  3541,3541,
    3543,3543,  3552,3557,  3568,3569,  3573,3584,  3643,3646,  3676,3712,  3715,3715,
    3717,3717,  3723,3723,  3748,3748,  3750,3750,  3774,3775,  3781,3781,  3783,3783,
    3791,3791,  3802,3803,  3808,3839,  3912,3912,  3949,3952,  3992,3992,  4029,4029,
    4045,4045,  4059,4095,  4256,4294,  4296,4300,  4302,4303,  4447,4448,  4681,4681,
    4686,4687,  4695,4695,  4697,4697,  4702,4703,  4745,4745,  4750,4751,  4785,4785,
    4790,4791,  4799,4799,  4801,4801,  4806,4807,  4823,4823,  4881,4881,  4886,4887,
    4955,4956,  4989,4991,  5018,5023,  5110,5111,  5118,5119,  5760,5760,  5789,5791,
    5881,5887,  5910,5918,  5943,5951,  5972,5983,  5997,5997,  6001,6001,  6004,6015,
    6068,6069,  6110,6111,  6122,6127,  6138,6143,  6150,6150,  6158,6158,  6170,6175,
    6265,6271,  6315,6319,  6390,6399,  6431,6431,  6444,6447,  6460,6463,  6465,6467,
    6510,6511,  6517,6527,  6572,6575,  6602,6607,  6619,6621,  6684,6685,  6751,6751,
    6781,6782,  6794,6799,  6810,6815,  6830,6831,  6863,6911,  6989,6991,  7039,7039,
    7156,7163,  7224,7226,  7242,7244,  7305,7311,  7355,7356,  7368,7375,  7419,7423,
    7958,7959,  7966,7967,  8006,8007,  8014,8015,  8024,8024,  8026,8026,  8028,8028,
    8030,8030,  8062,8063,  8117,8117,  8133,8133,  8148,8149,  8156,8156,  8176,8177,
    8181,8181,  8191,8191,  8206,8207,  8228,8230,  8232,8238,  8289,8291,  8293,8303,
    8306,8307,  8335,8335,  8349,8351,  8385,8399,  8433,8447,  8498,8498,  8579,8579,
    8588,8591,  9255,9279,  9291,9311,  9352,9371,  11124,11125,  11158,11158,  11508,11512,
    11558,11558,  11560,11564,  11566,11567,  11624,11630,  11633,11646,  11671,11679,
    11687,11687,  11695,11695,  11703,11703,  11711,11711,  11719,11719,  11727,11727,
    11735,11735,  11743,11743,  11870,11903,  11930,11930,  12020,12031,  12246,12287,
    12352,12352,  12439,12440,  12544,12548,  12592,12592,  12644,12644,  12687,12687,
    12772,12783,  12831,12831,  13250,13250,  13255,13255,  13272,13272,  42125,42127,
    42183,42191,  42540,42559,  42744,42751,  42955,42959,  42962,42962,  42964,42964,
    42970,42993,  43053,43055,  43066,43071,  43128,43135,  43206,43213,  43226,43231,
    43348,43358,  43389,43391,  43470,43470,  43482,43485,  43519,43519,  43575,43583,
    43598,43599,  43610,43611,  43715,43738,  43767,43776,  43783,43784,  43791,43792,
    43799,43807,  43815,43815,  43823,43823,  43884,43887,  44014,44015,  44026,44031,
    55204,55215,  55239,55242,  55292,63743,  64110,64111,  64218,64255,  64263,64274,
    64280,64284,  64311,64311,  64317,64317,  64319,64319,  64322,64322,  64325,64325,
    64451,64466,  64912,64913,  64968,64974,  64976,65007,  65042,65042,  65049,65055,
    65072,65072,  65106,65107,  65127,65127,  65132,65135,  65141,65141,  65277,65278,
    65280,65280,  65440,65440,  65471,65473,  65480,65481,  65488,65489,  65496,65497,
    65501,65503,  65511,65511,  65519,65535,  65548,65548,  65575,65575,  65595,65595,
    65598,65598,  65614,65615,  65630,65663,  65787,65791,  65795,65798,  65844,65846,
    65935,65935,  65949,65951,  65953,65999,  66046,66175,  66205,66207,  66257,66271,
    66300,66303,  66340,66348,  66379,66383,  66427,66431,  66462,66462,  66500,66503,
    66518,66559,  66718,66719,  66730,66735,  66772,66775,  66812,66815,  66856,66863,
    66916,66926,  66939,66939,  66955,66955,  66963,66963,  66966,66966,  66978,66978,
    66994,66994,  67002,67002,  67005,67071,  67383,67391,  67414,67423,  67432,67455,
    67462,67462,  67505,67505,  67515,67583,  67590,67591,  67593,67593,  67638,67638,
    67641,67643,  67645,67646,  67670,67670,  67743,67750,  67760,67807,  67827,67827,
    67830,67834,  67868,67870,  67898,67902,  67904,67967,  68024,68027,  68048,68049,
    68100,68100,  68103,68107,  68116,68116,  68120,68120,  68150,68151,  68155,68158,
    68169,68175,  68185,68191,  68256,68287,  68327,68330,  68343,68351,  68406,68408,
    68438,68439,  68467,68471,  68498,68504,  68509,68520,  68528,68607,  68681,68735,
    68787,68799,  68851,68857,  68904,68911,  68922,69215,  69247,69247,  69290,69290,
    69294,69295,  69298,69372,  69416,69423,  69466,69487,  69514,69551,  69580,69599,
    69623,69631,  69710,69713,  69750,69758,  69821,69821,  69827,69839,  69865,69871,
    69882,69887,  69941,69941,  69960,69967,  70007,70015,  70112,70112,  70133,70143,
    70162,70162,  70210,70271,  70279,70279,  70281,70281,  70286,70286,  70302,70302,
    70314,70319,  70379,70383,  70394,70399,  70404,70404,  70413,70414,  70417,70418,
    70441,70441,  70449,70449,  70452,70452,  70458,70458,  70469,70470,  70473,70474,
    70478,70479,  70481,70486,  70488,70492,  70500,70501,  70509,70511,  70517,70655,
    70748,70748,  70754,70783,  70856,70863,  70874,71039,  71094,71095,  71134,71167,
    71237,71247,  71258,71263,  71277,71295,  71354,71359,  71370,71423,  71451,71452,
    71468,71471,  71495,71679,  71740,71839,  71923,71934,  71943,71944,  71946,71947,
    71956,71956,  71959,71959,  71990,71990,  71993,71994,  72007,72015,  72026,72095,
    72104,72105,  72152,72153,  72165,72191,  72264,72271,  72355,72367,  72441,72447,
    72458,72703,  72713,72713,  72759,72759,  72774,72783,  72813,72815,  72848,72849,
    72872,72872,  72887,72959,  72967,72967,  72970,72970,  73015,73017,  73019,73019,
    73022,73022,  73032,73039,  73050,73055,  73062,73062,  73065,73065,  73103,73103,
    73106,73106,  73113,73119,  73130,73439,  73465,73471,  73489,73489,  73531,73533,
    73562,73647,  73649,73663,  73714,73726,  74650,74751,  74863,74863,  74869,74879,
    75076,77711,  77811,77823,  78896,78911,  78934,82943,  83527,92159,  92729,92735,
    92767,92767,  92778,92781,  92863,92863,  92874,92879,  92910,92911,  92918,92927,
    92998,93007,  93018,93018,  93026,93026,  93048,93052,  93072,93759,  93851,93951,
    94027,94030,  94088,94094,  94112,94175,  94181,94191,  94194,94207,  100344,100351,
    101590,101631,  101641,110575,  110580,110580,  110588,110588,  110591,110591,
    110883,110897,  110899,110927,  110931,110932,  110934,110947,  110952,110959,
    111356,113663,  113771,113775,  113789,113791,  113801,113807,  113818,113819,
    113828,118527,  118574,118575,  118599,118607,  118724,118783,  119030,119039,
    119079,119080,  119155,119162,  119275,119295,  119366,119487,  119508,119519,
    119540,119551,  119639,119647,  119673,119807,  119893,119893,  119965,119965,
    119968,119969,  119971,119972,  119975,119976,  119981,119981,  119994,119994,
    119996,119996,  120004,120004,  120070,120070,  120075,120076,  120085,120085,
    120093,120093,  120122,120122,  120127,120127,  120133,120133,  120135,120137,
    120145,120145,  120486,120487,  120780,120781,  121484,121498,  121504,121504,
    121520,122623,  122655,122660,  122667,122879,  122887,122887,  122905,122906,
    122914,122914,  122917,122917,  122923,122927,  122990,123022,  123024,123135,
    123181,123183,  123198,123199,  123210,123213,  123216,123535,  123567,123583,
    123642,123646,  123648,124111,  124154,124895,  124903,124903,  124908,124908,
    124911,124911,  124927,124927,  125125,125126,  125143,125183,  125260,125263,
    125274,125277,  125280,126064,  126133,126208,  126270,126463,  126468,126468,
    126496,126496,  126499,126499,  126501,126502,  126504,126504,  126515,126515,
    126520,126520,  126522,126522,  126524,126529,  126531,126534,  126536,126536,
    126538,126538,  126540,126540,  126544,126544,  126547,126547,  126549,126550,
    126552,126552,  126554,126554,  126556,126556,  126558,126558,  126560,126560,
    126563,126563,  126565,126566,  126571,126571,  126579,126579,  126584,126584,
    126589,126589,  126591,126591,  126602,126602,  126620,126624,  126628,126628,
    126634,126634,  126652,126703,  126706,126975,  127020,127023,  127124,127135,
    127151,127152,  127168,127168,  127184,127184,  127222,127232,  127406,127461,
    127491,127503,  127548,127551,  127561,127567,  127570,127583,  127590,127743,
    128728,128731,  128749,128751,  128765,128767,  128887,128890,  128986,128991,
    129004,129007,  129009,129023,  129036,129039,  129096,129103,  129114,129119,
    129160,129167,  129198,129199,  129202,129279,  129620,129631,  129646,129647,
    129661,129663,  129673,129679,  129726,129726,  129734,129741,  129756,129759,
    129769,129775,  129785,129791,  129939,129939,  129995,130031,  130042,131071,
    173792,173823,  177978,177983,  178206,178207,  183970,183983,  191457,194559,
    194664,194664,  194676,194676,  194847,194847,  194911,194911,  195007,195007,
    195102,196607,  201547,201551,  205744,917759,  918000,1114111 >>

\* status ignored, as ranges
IdnaIgnored ==
  << 173,173,  847,847,  6155,6157,  6159,6159,  8203,8203,  8288,8288,  8292,8292,  65024,65039,
    65279,65279,  113824,113827,  917760,917999 >>

\* status mapped, to one code point, as runs
IdnaMapRuns ==
  << 65,90,97,1,  160,160,32,1,  170,170,97,1,  178,179,50,1,  181,181,956,1,  185,185,49,1,
    186,186,111,1,  192,214,224,1,  216,222,248,1,  256,302,257,2,  308,310,309,2,
    313,317,314,2,  321,327,322,2,  330,374,331,2,  376,376,255,1,  377,381,378,2,
    383,383,115,1,  385,385,595,1,  386,388,387,2,  390,390,596,1,  391,391,392,1,
    393,394,598,1,  395,395,396,1,  398,398,477,1,  399,399,601,1,  400,400,603,1,
    401,401,402,1,  403,403,608,1,  404,404,611,1,  406,406,617,1,  407,407,616,1,
    408,408,409,1,  412,412,623,1,  413,413,626,1,  415,415,629,1,  416,420,417,2,
    422,422,640,1,  423,423,424,1,  425,425,643,1,  428,428,429,1,  430,430,648,1,
    431,431,432,1,  433,434,650,1,  435,437,436,2,  439,439,658,1,  440,440,441,1,
    444,444,445,1,  461,475,462,2,  478,494,479,2,  500,500,501,1,  502,502,405,1,
    503,503,447,1,  504,542,505,2,  544,544,414,1,  546,562,547,2,  570,570,11365,1,
    571,571,572,1,  573,573,410,1,  574,574,11366,1,  577,577,578,1,  579,579,384,1,
    580,580,649,1,  581,581,652,1,  582,590,583,2,  688,688,104,1,  689,689,614,1,
    690,690,106,1,  691,691,114,1,  692,692,633,1,  693,693,635,1,  694,694,641,1,
    695,695,119,1,  696,696,121,1,  736,736,611,1,  737,737,108,1,  738,738,115,1,
    739,739,120,1,  740,740,661,1,  832,833,768,1,  835,835,787,1,  837,837,953,1,
    880,882,881,2,  884,884,697,1,  886,886,887,1,  894,894,59,1,  895,895,1011,1,
    902,902,940,1,  903,903,183,1,  904,906,941,1,  908,908,972,1,  910,911,973,1,
    913,929,945,1,  931,939,963,1,  975,975,983,1,  976,976,946,1,  977,977,952,1,
    978,978,965,1,  979,979,973,1,  980,980,971,1,  981,981,966,1,  982,982,960,1,
    984,1006,985,2,  1008,1008,954,1,  1009,1009,961,1,  1010,1010,963,1,  1012,1012,952,1,
    1013,1013,949,1,  1015,1015,1016,1,  1017,1017,963,1,  1018,1018,1019,1,  1021,1023,891,1,
    1024,1039,1104,1,  1040,1071,1072,1,  1120,1152,1121,2,  1162,1214,1163,2,
    1217,1229,1218,2,  1232,1326,1233,2,  1329,1366,1377,1,  3852,3852,3851,1,
    4295,4295,11559,1,  4301,4301,11565,1,  4348,4348,4316,1,  5112,5117,5104,1,
    7296,7296,1074,1,  7297,7297,1076,1,  7298,7298,1086,1,  7299,7300,1089,1,
    7301,7301,1090,1,  7302,7302,1098,1,  7303,7303,1123,1,  7304,7304,42571,1,
    7312,7354,4304,1,  7357,7359,4349,1,  7468,7468,97,1,  7469,7469,230,1,  7470,7472,98,2,
    7473,7473,101,1,  7474,7474,477,1,  7475,7482,103,1,  7484,7484,111,1,  7485,7485,547,1,
    7486,7486,112,1,  7487,7487,114,1,  7488,7489,116,1,  7490,7490,119,1,  7491,7491,97,1,
    7492,7493,592,1,  7494,7494,7426,1,  7495,7495,98,1,  7496,7497,100,1,  7498,7498,601,1,
    7499,7500,603,1,  7501,7501,103,1,  7503,7503,107,1,  7504,7504,109,1,  7505,7505,331,1,
    7506,7506,111,1,  7507,7507,596,1,  7508,7509,7446,1,  7510,7510,112,1,  7511,7512,116,1,
    7513,7513,7453,1,  7514,7514,623,1,  7515,7515,118,1,  7516,7516,7461,1,  7517,7519,946,1,
    7520,7521,966,1,  7522,7522,105,1,  7523,7523,114,1,  7524,7525,117,1,  7526,7527,946,1,
    7528,7528,961,1,  7529,7530,966,1,  7544,7544,1085,1,  7579,7579,594,1,  7580,7580,99,1,
    7581,7581,597,1,  7582,7582,240,1,  7583,7583,604,1,  7584,7584,102,1,  7585,7585,607,1,
    7586,7586,609,1,  7587,7587,613,1,  7588,7590,616,1,  7591,7591,7547,1,  7592,7592,669,1,
    7593,7593,621,1,  7594,7594,7557,1,  7595,7595,671,1,  7596,7596,625,1,  7597,7597,624,1,
    7598,7601,626,1,  7602,7602,632,1,  7603,7604,642,1,  7605,7605,427,1,  7606,7607,649,1,
    7608,7608,7452,1,  7609,7610,651,1,  7611,7611,122,1,  7612,7614,656,1,  7615,7615,952,1,
    7680,7828,7681,2,  7835,7835,7777,1,  7840,7934,7841,2,  7944,7951,7936,1,
    7960,7965,7952,1,  7976,7983,7968,1,  7992,7999,7984,1,  8008,8013,8000,1,
    8025,8031,8017,2,  8040,8047,8032,1,  8049,8049,940,1,  8051,8051,941,1,  8053,8053,942,1,
    8055,8055,943,1,  8057,8057,972,1,  8059,8059,973,1,  8061,8061,974,1,  8120,8121,8112,1,
    8122,8122,8048,1,  8123,8123,940,1,  8126,8126,953,1,  8136,8136,8050,1,  8137,8137,941,1,
    8138,8138,8052,1,  8139,8139,942,1,  8147,8147,912,1,  8152,8153,8144,1,  8154,8154,8054,1,
    8155,8155,943,1,  8163,8163,944,1,  8168,8169,8160,1,  8170,8170,8058,1,  8171,8171,973,1,
    8172,8172,8165,1,  8175,8175,96,1,  8184,8184,8056,1,  8185,8185,972,1,  8186,8186,8060,1,
    8187,8187,974,1,  8192,8192,32,1,  8193,8193,32,1,  8194,8194,32,1,  8195,8195,32,1,
    8196,8196,32,1,  8197,8197,32,1,  8198,8198,32,1,  8199,8199,32,1,  8200,8200,32,1,
    8201,8201,32,1,  8202,8202,32,1,  8209,8209,8208,1,  8239,8239,32,1,  8287,8287,32,1,
    8304,8304,48,1,  8305,8305,105,1,  8308,8313,52,1,  8314,8314,43,1,  8315,8315,8722,1,
    8316,8316,61,1,  8317,8318,40,1,  8319,8319,110,1,  8320,8329,48,1,  8330,8330,43,1,
    8331,8331,8722,1,  8332,8332,61,1,  8333,8334,40,1,  8336,8336,97,1,  8337,8337,101,1,
    8338,8338,111,1,  8339,8339,120,1,  8340,8340,601,1,  8341,8341,104,1,  8342,8345,107,1,
    8346,8346,112,1,  8347,8348,115,1,  8450,8450,99,1,  8455,8455,603,1,  8458,8459,103,1,
    8460,8460,104,1,  8461,8461,104,1,  8462,8462,104,1,  8463,8463,295,1,  8464,8464,105,1,
    8465,8465,105,1,  8466,8466,108,1,  8467,8469,108,2,  8473,8475,112,1,  8476,8476,114,1,
    8477,8477,114,1,  8484,8484,122,1,  8486,8486,969,1,  8488,8488,122,1,  8490,8490,107,1,
    8491,8491,229,1,  8492,8493,98,1,  8495,8495,101,1,  8496,8497,101,1,  8499,8499,109,1,
    8500,8500,111,1,  8501,8504,1488,1,  8505,8505,105,1,  8508,8508,960,1,  8509,8509,947,1,
    8510,8510,947,1,  8511,8511,960,1,  8512,8512,8721,1,  8517,8517,100,1,  8518,8519,100,1,
    8520,8521,105,1,  8544,8544,105,1,  8548,8548,118,1,  8553,8553,120,1,  8556,8556,108,1,
    8557,8558,99,1,  8559,8559,109,1,  8560,8560,105,1,  8564,8564,118,1,  8569,8569,120,1,
    8572,8572,108,1,  8573,8574,99,1,  8575,8575,109,1,  9001,9002,12296,1,  9312,9320,49,1,
    9398,9423,97,1,  9424,9449,97,1,  9450,9450,48,1,  11264,11311,11312,1,
    11360,11360,11361,1,  11362,11362,619,1,  11363,11363,7549,1,  11364,11364,637,1,
    11367,11371,11368,2,  11373,11373,593,1,  11374,11374,625,1,  11375,11375,592,1,
    11376,11376,594,1,  11378,11378,11379,1,  11381,11381,11382,1,  11388,11388,106,1,
    11389,11389,118,1,  11390,11391,575,1,  11392,11490,11393,2,  11499,11501,11500,2,
    11506,11506,11507,1,  11631,11631,11617,1,  11935,11935,27597,1,  12019,12019,40863,1,
    12032,12032,19968,1,  12033,12033,20008,1,  12034,12034,20022,1,  12035,12035,20031,1,
    12036,12036,20057,1,  12037,12037,20101,1,  12038,12038,20108,1,  12039,12039,20128,1,
    12040,12040,20154,1,  12041,12041,20799,1,  12042,12042,20837,1,  12043,12043,20843,1,
    12044,12044,20866,1,  12045,12045,20886,1,  12046,12046,20907,1,  12047,12047,20960,1,
    12048,12048,20981,1,  12049,12049,20992,1,  12050,12050,21147,1,  12051,12051,21241,1,
    12052,12052,21269,1,  12053,12053,21274,1,  12054,12054,21304,1,  12055,12055,21313,1,
    12056,12056,21340,1,  12057,12057,21353,1,  12058,12058,21378,1,  12059,12059,21430,1,
    12060,12060,21448,1,  12061,12061,21475,1,  12062,12062,22231,1,  12063,12063,22303,1,
    12064,12064,22763,1,  12065,12065,22786,1,  12066,12066,22794,1,  12067,12067,22805,1,
    12068,12068,22823,1,  12069,12069,22899,1,  12070,12070,23376,1,  12071,12071,23424,1,
    12072,12072,23544,1,  12073,12073,23567,1,  12074,12074,23586,1,  12075,12075,23608,1,
    12076,12076,23662,1,  12077,12077,23665,1,  12078,12078,24027,1,  12079,12079,24037,1,
    12080,12080,24049,1,  12081,12081,24062,1,  12082,12082,24178,1,  12083,12083,24186,1,
    12084,12084,24191,1,  12085,12085,24308,1,  12086,12086,24318,1,  12087,12087,24331,1,
    12088,12088,24339,1,  12089,12089,24400,1,  12090,12090,24417,1,  12091,12091,24435,1,
    12092,12092,24515,1,  12093,12093,25096,1,  12094,12094,25142,1,  12095,12095,25163,1,
    12096,12096,25903,1,  12097,12097,25908,1,  12098,12098,25991,1,  12099,12099,26007,1,
    12100,12100,26020,1,  12101,12101,26041,1,  12102,12102,26080,1,  12103,12103,26085,1,
    12104,12104,26352,1,  12105,12105,26376,1,  12106,12106,26408,1,  12107,12107,27424,1,
    12108,12108,27490,1,  12109,12109,27513,1,  12110,12110,27571,1,  12111,12111,27595,1,
    12112,12112,27604,1,  12113,12113,27611,1,  12114,12114,27663,1,  12115,12115,27668,1,
    12116,12116,27700,1,  12117,12117,28779,1,  12118,12118,29226,1,  12119,12119,29238,1,
    12120,12120,29243,1,  12121,12121,29247,1,  12122,12122,29255,1,  12123,12123,29273,1,
    12124,12124,29275,1,  12125,12125,29356,1,  12126,12126,29572,1,  12127,12127,29577,1,
    12128,12128,29916,1,  12129,12129,29926,1,  12130,12130,29976,1,  12131,12131,29983,1,
    12132,12132,29992,1,  12133,12133,30000,1,  12134,12134,30091,1,  12135,12135,30098,1,
    12136,12136,30326,1,  12137,12137,30333,1,  12138,12138,30382,1,  12139,12139,30399,1,
    12140,12140,30446,1,  12141,12141,30683,1,  12142,12142,30690,1,  12143,12143,30707,1,
    12144,12144,31034,1,  12145,12145,31160,1,  12146,12146,31166,1,  12147,12147,31348,1,
    12148,12148,31435,1,  12149,12149,31481,1,  12150,12150,31859,1,  12151,12151,31992,1,
    12152,12152,32566,1,  12153,12153,32593,1,  12154,12154,32650,1,  12155,12155,32701,1,
    12156,12156,32769,1,  12157,12157,32780,1,  12158,12158,32786,1,  12159,12159,32819,1,
    12160,12160,32895,1,  12161,12161,32905,1,  12162,12162,33251,1,  12163,12163,33258,1,
    12164,12164,33267,1,  12165,12165,33276,1,  12166,12166,33292,1,  12167,12167,33307,1,
    12168,12168,33311,1,  12169,12169,33390,1,  12170,12170,33394,1,  12171,12171,33400,1,
    12172,12172,34381,1,  12173,12173,34411,1,  12174,12174,34880,1,  12175,12175,34892,1,
    12176,12176,34915,1,  12177,12177,35198,1,  12178,12178,35211,1,  12179,12179,35282,1,
    12180,12180,35328,1,  12181,12181,35895,1,  12182,12182,35910,1,  12183,12183,35925,1,
    12184,12184,35960,1,  12185,12185,35997,1,  12186,12186,36196,1,  12187,12187,36208,1,
    12188,12188,36275,1,  12189,12189,36523,1,  12190,12190,36554,1,  12191,12191,36763,1,
    12192,12192,36784,1,  12193,12193,36789,1,  12194,12194,37009,1,  12195,12195,37193,1,
    12196,12196,37318,1,  12197,12197,37324,1,  12198,12198,37329,1,  12199,12199,38263,1,
    12200,12200,38272,1,  12201,12201,38428,1,  12202,12202,38582,1,  12203,12203,38585,1,
    12204,12204,38632,1,  12205,12205,38737,1,  12206,12206,38750,1,  12207,12207,38754,1,
    12208,12208,38761,1,  12209,12209,38859,1,  12210,12210,38893,1,  12211,12211,38899,1,
    12212,12212,38913,1,  12213,12213,39080,1,  12214,12214,39131,1,  12215,12215,39135,1,
    12216,12216,39318,1,  12217,12217,39321,1,  12218,12218,39340,1,  12219,12219,39592,1,
    12220,12220,39640,1,  12221,12221,39647,1,  12222,12222,39717,1,  12223,12223,39727,1,
    12224,12224,39730,1,  12225,12225,39740,1,  12226,12226,39770,1,  12227,12227,40165,1,
    12228,12228,40565,1,  12229,12229,40575,1,  12230,12230,40613,1,  12231,12231,40635,1,
    12232,12232,40643,1,  12233,12233,40653,1,  12234,12234,40657,1,  12235,12235,40697,1,
    12236,12236,40701,1,  12237,12237,40718,1,  12238,12238,40723,1,  12239,12239,40736,1,
    12240,12240,40763,1,  12241,12241,40778,1,  12242,12242,40786,1,  12243,12243,40845,1,
    12244,12244,40860,1,  12245,12245,40864,1,  12288,12288,32,1,  12290,12290,46,1,
    12342,12342,12306,1,  12344,12344,21313,1,  12345,12346,21316,1,  12593,12594,4352,1,
    12595,12595,4522,1,  12596,12596,4354,1,  12597,12598,4524,1,  12599,12601,4355,1,
    12602,12607,4528,1,  12608,12608,4378,1,  12609,12611,4358,1,  12612,12612,4385,1,
    12613,12622,4361,1,  12623,12643,4449,1,  12645,12646,4372,1,  12647,12648,4551,1,
    12649,12649,4556,1,  12650,12650,4558,1,  12651,12651,4563,1,  12652,12652,4567,1,
    12653,12653,4569,1,  12654,12654,4380,1,  12655,12655,4573,1,  12656,12656,4575,1,
    12657,12658,4381,1,  12659,12659,4384,1,  12660,12661,4386,1,  12662,12662,4391,1,
    12663,12663,4393,1,  12664,12668,4395,1,  12669,12669,4402,1,  12670,12670,4406,1,
    12671,12671,4416,1,  12672,12672,4423,1,  12673,12673,4428,1,  12674,12675,4593,1,
    12676,12678,4439,1,  12679,12680,4484,1,  12681,12681,4488,1,  12682,12683,4497,1,
    12684,12684,4500,1,  12685,12685,4510,1,  12686,12686,4513,1,  12690,12690,19968,1,
    12691,12691,20108,1,  12692,12692,19977,1,  12693,12693,22235,1,  12694,12694,19978,1,
    12695,12695,20013,1,  12696,12696,19979,1,  12697,12697,30002,1,  12698,12698,20057,1,
    12699,12699,19993,1,  12700,12700,19969,1,  12701,12701,22825,1,  12702,12702,22320,1,
    12703,12703,20154,1,  12868,12868,21839,1,  12869,12869,24188,1,  12870,12870,25991,1,
    12871,12871,31631,1,  12896,12896,4352,1,  12897,12898,4354,1,  12899,12901,4357,1,
    12902,12902,4361,1,  12903,12904,4363,1,  12905,12909,4366,1,  12910,12910,44032,1,
    12911,12911,45208,1,  12912,12912,45796,1,  12913,12913,46972,1,  12914,12914,47560,1,
    12915,12915,48148,1,  12916,12916,49324,1,  12917,12917,50500,1,  12918,12918,51088,1,
    12919,12919,52264,1,  12920,12920,52852,1,  12921,12921,53440,1,  12922,12922,54028,1,
    12923,12923,54616,1,  12926,12926,50864,1,  12928,12928,19968,1,  12929,12929,20108,1,
    12930,12930,19977,1,  12931,12931,22235,1,  12932,12932,20116,1,  12933,12933,20845,1,
    12934,12934,19971,1,  12935,12935,20843,1,  12936,12936,20061,1,  12937,12937,21313,1,
    12938,12938,26376,1,  12939,12939,28779,1,  12940,12940,27700,1,  12941,12941,26408,1,
    12942,12942,37329,1,  12943,12943,22303,1,  12944,12944,26085,1,  12945,12945,26666,1,
    12946,12946,26377,1,  12947,12947,31038,1,  12948,12948,21517,1,  12949,12949,29305,1,
    12950,12950,36001,1,  12951,12951,31069,1,  12952,12952,21172,1,  12953,12953,31192,1,
    12954,12954,30007,1,  12955,12955,22899,1,  12956,12956,36969,1,  12957,12957,20778,1,
    12958,12958,21360,1,  12959,12959,27880,1,  12960,12960,38917,1,  12961,12961,20241,1,
    12962,12962,20889,1,  12963,12963,27491,1,  12964,12964,19978,1,  12965,12965,20013,1,
    12966,12966,19979,1,  12967,12967,24038,1,  12968,12968,21491,1,  12969,12969,21307,1,
    12970,12970,23447,1,  12971,12971,23398,1,  12972,12972,30435,1,  12973,12973,20225,1,
    12974,12974,36039,1,  12975,12975,21332,1,  12976,12976,22812,1,  13008,13008,12450,1,
    13009,13009,12452,1,  13010,13010,12454,1,  13011,13011,12456,1,  13012,13013,12458,1,
    13014,13014,12461,1,  13015,13015,12463,1,  13016,13016,12465,1,  13017,13017,12467,1,
    13018,13018,12469,1,  13019,13019,12471,1,  13020,13020,12473,1,  13021,13021,12475,1,
    13022,13022,12477,1,  13023,13023,12479,1,  13024,13024,12481,1,  13025,13025,12484,1,
    13026,13026,12486,1,  13027,13027,12488,1,  13028,13033,12490,1,  13034,13034,12498,1,
    13035,13035,12501,1,  13036,13036,12504,1,  13037,13037,12507,1,  13038,13042,12510,1,
    13043,13043,12516,1,  13044,13044,12518,1,  13045,13050,12520,1,  13051,13054,12527,1,
    42560,42604,42561,2,  42624,42650,42625,2,  42652,42652,1098,1,  42653,42653,1100,1,
    42786,42798,42787,2,  42802,42862,42803,2,  42864,42864,42863,1,  42873,42875,42874,2,
    42877,42877,7545,1,  42878,42886,42879,2,  42891,42891,42892,1,  42893,42893,613,1,
    42896,42898,42897,2,  42902,42920,42903,2,  42922,42922,614,1,  42923,42923,604,1,
    42924,42924,609,1,  42925,42925,620,1,  42926,42926,618,1,  42928,42928,670,1,
    42929,42929,647,1,  42930,42930,669,1,  42931,42931,43859,1,  42932,42946,42933,2,
    42948,42948,42900,1,  42949,42949,642,1,  42950,42950,7566,1,  42951,42953,42952,2,
    42960,42960,42961,1,  42966,42968,42967,2,  42994,42994,99,1,  42995,42995,102,1,
    42996,42996,113,1,  42997,42997,42998,1,  43000,43000,295,1,  43001,43001,339,1,
    43868,43868,42791,1,  43869,43869,43831,1,  43870,43870,619,1,  43871,43871,43858,1,
    43881,43881,653,1,  43888,43967,5024,1,  63744,63744,35912,1,  63745,63745,26356,1,
    63746,63746,36554,1,  63747,63747,36040,1,  63748,63748,28369,1,  63749,63749,20018,1,
    63750,63750,21477,1,  63751,63751,40860,1,  63752,63752,40860,1,  63753,63753,22865,1,
    63754,63754,37329,1,  63755,63755,21895,1,  63756,63756,22856,1,  63757,63757,25078,1,
    63758,63758,30313,1,  63759,63759,32645,1,  63760,63760,34367,1,  63761,63761,34746,1,
    63762,63762,35064,1,  63763,63763,37007,1,  63764,63764,27138,1,  63765,63765,27931,1,
    63766,63766,28889,1,  63767,63767,29662,1,  63768,63768,33853,1,  63769,63769,37226,1,
    63770,63770,39409,1,  63771,63771,20098,1,  63772,63772,21365,1,  63773,63773,27396,1,
    63774,63774,29211,1,  63775,63775,34349,1,  63776,63776,40478,1,  63777,63777,23888,1,
    63778,63778,28651,1,  63779,63779,34253,1,  63780,63780,35172,1,  63781,63781,25289,1,
    63782,63782,33240,1,  63783,63783,34847,1,  63784,63784,24266,1,  63785,63785,26391,1,
    63786,63786,28010,1,  63787,63787,29436,1,  63788,63788,37070,1,  63789,63789,20358,1,
    63790,63790,20919,1,  63791,63791,21214,1,  63792,63792,25796,1,  63793,63793,27347,1,
    63794,63794,29200,1,  63795,63795,30439,1,  63796,63796,32769,1,  63797,63797,34310,1,
    63798,63798,34396,1,  63799,63799,36335,1,  63800,63800,38706,1,  63801,63801,39791,1,
    63802,63802,40442,1,  63803,63803,30860,1,  63804,63804,31103,1,  63805,63805,32160,1,
    63806,63806,33737,1,  63807,63807,37636,1,  63808,63808,40575,1,  63809,63809,35542,1,
    63810,63810,22751,1,  63811,63811,24324,1,  63812,63812,31840,1,  63813,63813,32894,1,
    63814,63814,29282,1,  63815,63815,30922,1,  63816,63816,36034,1,  63817,63817,38647,1,
    63818,63818,22744,1,  63819,63819,23650,1,  63820,63820,27155,1,  63821,63821,28122,1,
    63822,63822,28431,1,  63823,63823,32047,1,  63824,63824,32311,1,  63825,63825,38475,1,
    63826,63826,21202,1,  63827,63827,32907,1,  63828,63828,20956,1,  63829,63829,20940,1,
    63830,63830,31260,1,  63831,63831,32190,1,  63832,63832,33777,1,  63833,63833,38517,1,
    63834,63834,35712,1,  63835,63835,25295,1,  63836,63836,27138,1,  63837,63837,35582,1,
    63838,63838,20025,1,  63839,63839,23527,1,  63840,63840,24594,1,  63841,63841,29575,1,
    63842,63842,30064,1,  63843,63843,21271,1,  63844,63844,30971,1,  63845,63845,20415,1,
    63846,63846,24489,1,  63847,63847,19981,1,  63848,63848,27852,1,  63849,63849,25976,1,
    63850,63850,32034,1,  63851,63851,21443,1,  63852,63852,22622,1,  63853,63853,30465,1,
    63854,63854,33865,1,  63855,63855,35498,1,  63856,63856,27578,1,  63857,63857,36784,1,
    63858,63858,27784,1,  63859,63859,25342,1,  63860,63860,33509,1,  63861,63861,25504,1,
    63862,63862,30053,1,  63863,63863,20142,1,  63864,63864,20841,1,  63865,63865,20937,1,
    63866,63866,26753,1,  63867,63867,31975,1,  63868,63868,33391,1,  63869,63869,35538,1,
    63870,63870,37327,1,  63871,63871,21237,1,  63872,63872,21570,1,  63873,63873,22899,1,
    63874,63874,24300,1,  63875,63875,26053,1,  63876,63876,28670,1,  63877,63877,31018,1,
    63878,63878,38317,1,  63879,63879,39530,1,  63880,63880,40599,1,  63881,63881,40654,1,
    63882,63882,21147,1,  63883,63883,26310,1,  63884,63884,27511,1,  63885,63885,36706,1,
    63886,63886,24180,1,  63887,63887,24976,1,  63888,63888,25088,1,  63889,63889,25754,1,
    63890,63890,28451,1,  63891,63891,29001,1,  63892,63892,29833,1,  63893,63893,31178,1,
    63894,63894,32244,1,  63895,63895,32879,1,  63896,63896,36646,1,  63897,63897,34030,1,
    63898,63898,36899,1,  63899,63899,37706,1,  63900,63900,21015,1,  63901,63901,21155,1,
    63902,63902,21693,1,  63903,63903,28872,1,  63904,63904,35010,1,  63905,63905,35498,1,
    63906,63906,24265,1,  63907,63907,24565,1,  63908,63908,25467,1,  63909,63909,27566,1,
    63910,63910,31806,1,  63911,63911,29557,1,  63912,63912,20196,1,  63913,63913,22265,1,
    63914,63914,23527,1,  63915,63915,23994,1,  63916,63916,24604,1,  63917,63917,29618,1,
    63918,63918,29801,1,  63919,63919,32666,1,  63920,63920,32838,1,  63921,63921,37428,1,
    63922,63922,38646,1,  63923,63923,38728,1,  63924,63924,38936,1,  63925,63925,20363,1,
    63926,63926,31150,1,  63927,63927,37300,1,  63928,63928,38584,1,  63929,63929,24801,1,
    63930,63930,20102,1,  63931,63931,20698,1,  63932,63932,23534,1,  63933,63933,23615,1,
    63934,63934,26009,1,  63935,63935,27138,1,  63936,63936,29134,1,  63937,63937,30274,1,
    63938,63938,34044,1,  63939,63939,36988,1,  63940,63940,40845,1,  63941,63941,26248,1,
    63942,63942,38446,1,  63943,63943,21129,1,  63944,63944,26491,1,  63945,63945,26611,1,
    63946,63946,27969,1,  63947,63947,28316,1,  63948,63948,29705,1,  63949,63949,30041,1,
    63950,63950,30827,1,  63951,63951,32016,1,  63952,63952,39006,1,  63953,63953,20845,1,
    63954,63954,25134,1,  63955,63955,38520,1,  63956,63956,20523,1,  63957,63957,23833,1,
    63958,63958,28138,1,  63959,63959,36650,1,  63960,63960,24459,1,  63961,63961,24900,1,
    63962,63962,26647,1,  63963,63963,29575,1,  63964,63964,38534,1,  63965,63965,21033,1,
    63966,63966,21519,1,  63967,63967,23653,1,  63968,63968,26131,1,  63969,63969,26446,1,
    63970,63970,26792,1,  63971,63971,27877,1,  63972,63972,29702,1,  63973,63973,30178,1,
    63974,63974,32633,1,  63975,63975,35023,1,  63976,63976,35041,1,  63977,63977,37324,1,
    63978,63978,38626,1,  63979,63979,21311,1,  63980,63980,28346,1,  63981,63981,21533,1,
    63982,63982,29136,1,  63983,63983,29848,1,  63984,63984,34298,1,  63985,63985,38563,1,
    63986,63986,40023,1,  63987,63987,40607,1,  63988,63988,26519,1,  63989,63989,28107,1,
    63990,63990,33256,1,  63991,63991,31435,1,  63992,63992,31520,1,  63993,63993,31890,1,
    63994,63994,29376,1,  63995,63995,28825,1,  63996,63996,35672,1,  63997,63997,20160,1,
    63998,63998,33590,1,  63999,63999,21050,1,  64000,64000,20999,1,  64001,64001,24230,1,
    64002,64002,25299,1,  64003,64003,31958,1,  64004,64004,23429,1,  64005,64005,27934,1,
    64006,64006,26292,1,  64007,64007,36667,1,  64008,64008,34892,1,  64009,64009,38477,1,
    64010,64010,35211,1,  64011,64011,24275,1,  64012,64012,20800,1,  64013,64013,21952,1,
    64016,64016,22618,1,  64018,64018,26228,1,  64021,64021,20958,1,  64022,64022,29482,1,
    64023,64023,30410,1,  64024,64024,31036,1,  64025,64025,31070,1,  64026,64026,31077,1,
    64027,64027,31119,1,  64028,64028,38742,1,  64029,64029,31934,1,  64030,64030,32701,1,
    64032,64032,34322,1,  64034,64034,35576,1,  64037,64037,36920,1,  64038,64038,37117,1,
    64042,64042,39151,1,  64043,64043,39164,1,  64044,64044,39208,1,  64045,64045,40372,1,
    64046,64046,37086,1,  64047,64047,38583,1,  64048,64048,20398,1,  64049,64049,20711,1,
    64050,64050,20813,1,  64051,64051,21193,1,  64052,64052,21220,1,  64053,64053,21329,1,
    64054,64054,21917,1,  64055,64055,22022,1,  64056,64056,22120,1,  64057,64057,22592,1,
    64058,64058,22696,1,  64059,64059,23652,1,  64060,64060,23662,1,  64061,64061,24724,1,
    64062,64062,24936,1,  64063,64063,24974,1,  64064,64064,25074,1,  64065,64065,25935,1,
    64066,64066,26082,1,  64067,64067,26257,1,  64068,64068,26757,1,  64069,64069,28023,1,
    64070,64070,28186,1,  64071,64071,28450,1,  64072,64072,29038,1,  64073,64073,29227,1,
    64074,64074,29730,1,  64075,64075,30865,1,  64076,64076,31038,1,  64077,64077,31049,1,
    64078,64078,31048,1,  64079,64079,31056,1,  64080,64080,31062,1,  64081,64081,31069,1,
    64082,64083,31117,1,  64084,64084,31296,1,  64085,64085,31361,1,  64086,64086,31680,1,
    64087,64087,32244,1,  64088,64088,32265,1,  64089,64089,32321,1,  64090,64090,32626,1,
    64091,64091,32773,1,  64092,64092,33261,1,  64093,64093,33401,1,  64094,64094,33401,1,
    64095,64095,33879,1,  64096,64096,35088,1,  64097,64097,35222,1,  64098,64098,35585,1,
    64099,64099,35641,1,  64100,64100,36051,1,  64101,64101,36104,1,  64102,64102,36790,1,
    64103,64103,36920,1,  64104,64104,38627,1,  64105,64105,38911,1,  64106,64106,38971,1,
    64107,64107,24693,1,  64108,64108,148206,1,  64109,64109,33304,1,  64112,64112,20006,1,
    64113,64113,20917,1,  64114,64114,20840,1,  64115,64115,20352,1,  64116,64116,20805,1,
    64117,64117,20864,1,  64118,64118,21191,1,  64119,64119,21242,1,  64120,64120,21917,1,
    64121,64121,21845,1,  64122,64122,21913,1,  64123,64123,21986,1,  64124,64124,22618,1,
    64125,64125,22707,1,  64126,64126,22852,1,  64127,64127,22868,1,  64128,64128,23138,1,
    64129,64129,23336,1,  64130,64130,24274,1,  64131,64131,24281,1,  64132,64132,24425,1,
    64133,64133,24493,1,  64134,64134,24792,1,  64135,64135,24910,1,  64136,64136,24840,1,
    64137,64137,24974,1,  64138,64138,24928,1,  64139,64139,25074,1,  64140,64140,25140,1,
    64141,64141,25540,1,  64142,64142,25628,1,  64143,64143,25682,1,  64144,64144,25942,1,
    64145,64145,26228,1,  64146,64146,26391,1,  64147,64147,26395,1,  64148,64148,26454,1,
    64149,64149,27513,1,  64150,64150,27578,1,  64151,64151,27969,1,  64152,64152,28379,1,
    64153,64153,28363,1,  64154,64154,28450,1,  64155,64155,28702,1,  64156,64156,29038,1,
    64157,64157,30631,1,  64158,64158,29237,1,  64159,64159,29359,1,  64160,64160,29482,1,
    64161,64161,29809,1,  64162,64162,29958,1,  64163,64163,30011,1,  64164,64164,30237,1,
    64165,64165,30239,1,  64166,64166,30410,1,  64167,64167,30427,1,  64168,64168,30452,1,
    64169,64169,30538,1,  64170,64170,30528,1,  64171,64171,30924,1,  64172,64172,31409,1,
    64173,64173,31680,1,  64174,64174,31867,1,  64175,64175,32091,1,  64176,64176,32244,1,
    64177,64177,32574,1,  64178,64178,32773,1,  64179,64179,33618,1,  64180,64180,33775,1,
    64181,64181,34681,1,  64182,64182,35137,1,  64183,64183,35206,1,  64184,64184,35222,1,
    64185,64185,35519,1,  64186,64186,35576,1,  64187,64187,35531,1,  64188,64188,35585,1,
    64189,64189,35582,1,  64190,64190,35565,1,  64191,64191,35641,1,  64192,64192,35722,1,
    64193,64193,36104,1,  64194,64194,36664,1,  64195,64195,36978,1,  64196,64196,37273,1,
    64197,64197,37494,1,  64198,64198,38524,1,  64199,64199,38627,1,  64200,64200,38742,1,
    64201,64201,38875,1,  64202,64202,38911,1,  64203,64203,38923,1,  64204,64204,38971,1,
    64205,64205,39698,1,  64206,64206,40860,1,  64207,64207,141386,1,  64208,64208,141380,1,
    64209,64209,144341,1,  64210,64210,15261,1,  64211,64211,16408,1,  64212,64212,16441,1,
    64213,64213,152137,1,  64214,64214,154832,1,  64215,64215,163539,1,  64216,64216,40771,1,
    64217,64217,40846,1,  64288,64288,1506,1,  64289,64289,1488,1,  64290,64291,1491,1,
    64292,64294,1499,1,  64295,64295,1512,1,  64296,64296,1514,1,  64297,64297,43,1,
    64336,64336,1649,1,  64337,64337,1649,1,  64338,64338,1659,1,  64339,64339,1659,1,
    64340,64340,1659,1,  64341,64341,1659,1,  64342,64342,1662,1,  64343,64343,1662,1,
    64344,64344,1662,1,  64345,64345,1662,1,  64346,64346,1664,1,  64347,64347,1664,1,
    64348,64348,1664,1,  64349,64349,1664,1,  64350,64350,1658,1,  64351,64351,1658,1,
    64352,64352,1658,1,  64353,64353,1658,1,  64354,64354,1663,1,  64355,64355,1663,1,
    64356,64356,1663,1,  64357,64357,1663,1,  64358,64358,1657,1,  64359,64359,1657,1,
    64360,64360,1657,1,  64361,64361,1657,1,  64362,64362,1700,1,  64363,64363,1700,1,
    64364,64364,1700,1,  64365,64365,1700,1,  64366,64366,1702,1,  64367,64367,1702,1,
    64368,64368,1702,1,  64369,64369,1702,1,  64370,64370,1668,1,  64371,64371,1668,1,
    64372,64372,1668,1,  64373,64373,1668,1,  64374,64374,1667,1,  64375,64375,1667,1,
    64376,64376,1667,1,  64377,64377,1667,1,  64378,64378,1670,1,  64379,64379,1670,1,
    64380,64380,1670,1,  64381,64382,1670,1,  64383,64383,1671,1,  64384,64384,1671,1,
    64385,64385,1671,1,  64386,64386,1677,1,  64387,64387,1677,1,  64388,64388,1676,1,
    64389,64389,1676,1,  64390,64390,1678,1,  64391,64391,1678,1,  64392,64392,1672,1,
    64393,64393,1672,1,  64394,64394,1688,1,  64395,64395,1688,1,  64396,64396,1681,1,
    64397,64397,1681,1,  64398,64398,1705,1,  64399,64399,1705,1,  64400,64400,1705,1,
    64401,64401,1705,1,  64402,64402,1711,1,  64403,64403,1711,1,  64404,64404,1711,1,
    64405,64405,1711,1,  64406,64406,1715,1,  64407,64407,1715,1,  64408,64408,1715,1,
    64409,64409,1715,1,  64410,64410,1713,1,  64411,64411,1713,1,  64412,64412,1713,1,
    64413,64413,1713,1,  64414,64414,1722,1,  64415,64416,1722,1,  64417,64417,1723,1,
    64418,64418,1723,1,  64419,64419,1723,1,  64420,64420,1728,1,  64421,64422,1728,1,
    64423,64423,1729,1,  64424,64424,1729,1,  64425,64425,1729,1,  64426,64426,1726,1,
    64427,64427,1726,1,  64428,64428,1726,1,  64429,64429,1726,1,  64430,64430,1746,1,
    64431,64432,1746,1,  64433,64433,1747,1,  64467,64467,1709,1,  64468,64468,1709,1,
    64469,64469,1709,1,  64470,64470,1709,1,  64471,64471,1735,1,  64472,64472,1735,1,
    64473,64473,1734,1,  64474,64474,1734,1,  64475,64475,1736,1,  64476,64476,1736,1,
    64478,64478,1739,1,  64479,64479,1739,1,  64480,64480,1733,1,  64481,64481,1733,1,
    64482,64482,1737,1,  64483,64483,1737,1,  64484,64484,1744,1,  64485,64485,1744,1,
    64486,64486,1744,1,  64487,64487,1744,1,  64488,64488,1609,1,  64489,64489,1609,1,
    64508,64508,1740,1,  64509,64509,1740,1,  64510,64510,1740,1,  64511,64511,1740,1,
    65040,65040,44,1,  65041,65041,12289,1,  65043,65044,58,1,  65045,65045,33,1,
    65046,65046,63,1,  65047,65048,12310,1,  65073,65073,8212,1,  65074,65074,8211,1,
    65075,65075,95,1,  65076,65076,95,1,  65077,65078,40,1,  65079,65079,123,1,
    65080,65080,125,1,  65081,65082,12308,1,  65083,65084,12304,1,  65085,65086,12298,1,
    65087,65088,12296,1,  65089,65092,12300,1,  65095,65095,91,1,  65096,65096,93,1,
    65101,65101,95,1,  65102,65102,95,1,  65103,65103,95,1,  65104,65104,44,1,
    65105,65105,12289,1,  65108,65108,59,1,  65109,65109,58,1,  65110,65110,63,1,
    65111,65111,33,1,  65112,65112,8212,1,  65113,65114,40,1,  65115,65115,123,1,
    65116,65116,125,1,  65117,65118,12308,1,  65119,65119,35,1,  65120,65120,38,1,
    65121,65122,42,1,  65123,65123,45,1,  65124,65124,60,1,  65125,65125,62,1,
    65126,65126,61,1,  65128,65128,92,1,  65129,65130,36,1,  65131,65131,64,1,
    65152,65153,1569,1,  65154,65155,1570,1,  65156,65157,1571,1,  65158,65159,1572,1,
    65160,65161,1573,1,  65162,65162,1574,1,  65163,65163,1574,1,  65164,65165,1574,1,
    65166,65167,1575,1,  65168,65168,1576,1,  65169,65169,1576,1,  65170,65171,1576,1,
    65172,65173,1577,1,  65174,65174,1578,1,  65175,65175,1578,1,  65176,65177,1578,1,
    65178,65178,1579,1,  65179,65179,1579,1,  65180,65181,1579,1,  65182,65182,1580,1,
    65183,65183,1580,1,  65184,65185,1580,1,  65186,65186,1581,1,  65187,65187,1581,1,
    65188,65189,1581,1,  65190,65190,1582,1,  65191,65191,1582,1,  65192,65193,1582,1,
    65194,65195,1583,1,  65196,65197,1584,1,  65198,65199,1585,1,  65200,65201,1586,1,
    65202,65202,1587,1,  65203,65203,1587,1,  65204,65205,1587,1,  65206,65206,1588,1,
    65207,65207,1588,1,  65208,65209,1588,1,  65210,65210,1589,1,  65211,65211,1589,1,
    65212,65213,1589,1,  65214,65214,1590,1,  65215,65215,1590,1,  65216,65217,1590,1,
    65218,65218,1591,1,  65219,65219,1591,1,  65220,65221,1591,1,  65222,65222,1592,1,
    65223,65223,1592,1,  65224,65225,1592,1,  65226,65226,1593,1,  65227,65227,1593,1,
    65228,65229,1593,1,  65230,65230,1594,1,  65231,65231,1594,1,  65232,65232,1594,1,
    65233,65233,1601,1,  65234,65234,1601,1,  65235,65235,1601,1,  65236,65237,1601,1,
    65238,65238,1602,1,  65239,65239,1602,1,  65240,65241,1602,1,  65242,65242,1603,1,
    65243,65243,1603,1,  65244,65245,1603,1,  65246,65246,1604,1,  65247,65247,1604,1,
    65248,65249,1604,1,  65250,65250,1605,1,  65251,65251,1605,1,  65252,65253,1605,1,
    65254,65254,1606,1,  65255,65255,1606,1,  65256,65257,1606,1,  65258,65258,1607,1,
    65259,65259,1607,1,  65260,65261,1607,1,  65262,65263,1608,1,  65264,65265,1609,1,
    65266,65266,1610,1,  65267,65267,1610,1,  65268,65268,1610,1,  65281,65312,33,1,
    65313,65338,97,1,  65339,65374,91,1,  65375,65376,10629,1,  65377,65377,46,1,
    65378,65379,12300,1,  65380,65380,12289,1,  65381,65381,12539,1,  65382,65382,12530,1,
    65383,65383,12449,1,  65384,65384,12451,1,  65385,65385,12453,1,  65386,65386,12455,1,
    65387,65387,12457,1,  65388,65388,12515,1,  65389,65389,12517,1,  65390,65390,12519,1,
    65391,65391,12483,1,  65392,65392,12540,1,  65393,65393,12450,1,  65394,65394,12452,1,
    65395,65395,12454,1,  65396,65396,12456,1,  65397,65398,12458,1,  65399,65399,12461,1,
    65400,65400,12463,1,  65401,65401,12465,1,  65402,65402,12467,1,  65403,65403,12469,1,
    65404,65404,12471,1,  65405,65405,12473,1,  65406,65406,12475,1,  65407,65407,12477,1,
    65408,65408,12479,1,  65409,65409,12481,1,  65410,65410,12484,1,  65411,65411,12486,1,
    65412,65412,12488,1,  65413,65418,12490,1,  65419,65419,12498,1,  65420,65420,12501,1,
    65421,65421,12504,1,  65422,65422,12507,1,  65423,65427,12510,1,  65428,65428,12516,1,
    65429,65429,12518,1,  65430,65435,12520,1,  65436,65436,12527,1,  65437,65437,12531,1,
    65438,65439,12441,1,  65441,65442,4352,1,  65443,65443,4522,1,  65444,65444,4354,1,
    65445,65446,4524,1,  65447,65449,4355,1,  65450,65455,4528,1,  65456,65456,4378,1,
    65457,65459,4358,1,  65460,65460,4385,1,  65461,65470,4361,1,  65474,65479,4449,1,
    65482,65487,4455,1,  65490,65495,4461,1,  65498,65500,4467,1,  65504,65505,162,1,
    65506,65506,172,1,  65508,65508,166,1,  65509,65509,165,1,  65510,65510,8361,1,
    65512,65512,9474,1,  65513,65516,8592,1,  65517,65517,9632,1,  65518,65518,9675,1,
    66560,66599,66600,1,  66736,66771,66776,1,  66928,66938,66967,1,  66940,66954,66979,1,
    66956,66962,66995,1,  66964,66965,67003,1,  67457,67458,720,1,  67459,67459,230,1,
    67460,67460,665,1,  67461,67461,595,1,  67463,67463,675,1,  67464,67464,43878,1,
    67465,67465,677,1,  67466,67466,676,1,  67467,67468,598,1,  67469,67469,7569,1,
    67470,67470,600,1,  67471,67471,606,1,  67472,67472,681,1,  67473,67473,612,1,
    67474,67474,610,1,  67475,67475,608,1,  67476,67476,667,1,  67477,67477,295,1,
    67478,67478,668,1,  67479,67479,615,1,  67480,67480,644,1,  67481,67482,682,1,
    67483,67483,620,1,  67484,67484,122628,1,  67485,67485,42894,1,  67486,67486,622,1,
    67487,67487,122629,1,  67488,67488,654,1,  67489,67489,122630,1,  67490,67490,248,1,
    67491,67492,630,1,  67493,67493,113,1,  67494,67494,634,1,  67495,67495,122632,1,
    67496,67497,637,1,  67498,67498,640,1,  67499,67499,680,1,  67500,67500,678,1,
    67501,67501,43879,1,  67502,67502,679,1,  67503,67503,648,1,  67504,67504,11377,1,
    67506,67506,655,1,  67507,67508,673,1,  67509,67509,664,1,  67510,67512,448,1,
    67513,67513,122634,1,  67514,67514,122654,1,  68736,68786,68800,1,  71840,71871,71872,1,
    93760,93791,93792,1,  119808,119833,97,1,  119834,119859,97,1,  119860,119885,97,1,
    119886,119892,97,1,  119894,119911,105,1,  119912,119937,97,1,  119938,119963,97,1,
    119964,119966,97,2,  119967,119967,100,1,  119970,119970,103,1,  119973,119974,106,1,
    119977,119980,110,1,  119982,119989,115,1,  119990,119993,97,1,  119995,119997,102,2,
    119998,120003,105,1,  120005,120015,112,1,  120016,120041,97,1,  120042,120067,97,1,
    120068,120069,97,1,  120071,120074,100,1,  120077,120084,106,1,  120086,120092,115,1,
    120094,120119,97,1,  120120,120121,97,1,  120123,120126,100,1,  120128,120132,105,1,
    120134,120134,111,1,  120138,120144,115,1,  120146,120171,97,1,  120172,120197,97,1,
    120198,120223,97,1,  120224,120249,97,1,  120250,120275,97,1,  120276,120301,97,1,
    120302,120327,97,1,  120328,120353,97,1,  120354,120379,97,1,  120380,120405,97,1,
    120406,120431,97,1,  120432,120457,97,1,  120458,120483,97,1,  120484,120484,305,1,
    120485,120485,567,1,  120488,120504,945,1,  120505,120505,952,1,  120506,120512,963,1,
    120513,120513,8711,1,  120514,120530,945,1,  120531,120531,963,1,  120532,120538,963,1,
    120539,120539,8706,1,  120540,120540,949,1,  120541,120541,952,1,  120542,120542,954,1,
    120543,120543,966,1,  120544,120544,961,1,  120545,120545,960,1,  120546,120562,945,1,
    120563,120563,952,1,  120564,120570,963,1,  120571,120571,8711,1,  120572,120588,945,1,
    120589,120589,963,1,  120590,120596,963,1,  120597,120597,8706,1,  120598,120598,949,1,
    120599,120599,952,1,  120600,120600,954,1,  120601,120601,966,1,  120602,120602,961,1,
    120603,120603,960,1,  120604,120620,945,1,  120621,120621,952,1,  120622,120628,963,1,
    120629,120629,8711,1,  120630,120646,945,1,  120647,120647,963,1,  120648,120654,963,1,
    120655,120655,8706,1,  120656,120656,949,1,  120657,120657,952,1,  120658,120658,954,1,
    120659,120659,966,1,  120660,120660,961,1,  120661,120661,960,1,  120662,120678,945,1,
    120679,120679,952,1,  120680,120686,963,1,  120687,120687,8711,1,  120688,120704,945,1,
    120705,120705,963,1,  120706,120712,963,1,  120713,120713,8706,1,  120714,120714,949,1,
    120715,120715,952,1,  120716,120716,954,1,  120717,120717,966,1,  120718,120718,961,1,
    120719,120719,960,1,  120720,120736,945,1,  120737,120737,952,1,  120738,120744,963,1,
    120745,120745,8711,1,  120746,120762,945,1,  120763,120763,963,1,  120764,120770,963,1,
    120771,120771,8706,1,  120772,120772,949,1,  120773,120773,952,1,  120774,120774,954,1,
    120775,120775,966,1,  120776,120776,961,1,  120777,120777,960,1,  120778,120778,989,1,
    120779,120779,989,1,  120782,120791,48,1,  120792,120801,48,1,  120802,120811,48,1,
    120812,120821,48,1,  120822,120831,48,1,  122928,122936,1072,1,  122937,122939,1082,1,
    122940,122950,1086,1,  122951,122951,1099,1,  122952,122953,1101,1,  122954,122954,42633,1,
    122955,122955,1241,1,  122956,122956,1110,1,  122957,122957,1112,1,  122958,122958,1257,1,
    122959,122959,1199,1,  122960,122960,1231,1,  122961,122969,1072,1,  122970,122971,1082,1,
    122972,122973,1086,1,  122974,122974,1089,1,  122975,122980,1091,1,  122981,122982,1098,1,
    122983,122983,1169,1,  122984,122984,1110,1,  122985,122985,1109,1,  122986,122986,1119,1,
    122987,122987,1195,1,  122988,122988,42577,1,  122989,122989,1201,1,
    125184,125217,125218,1,  126464,126465,1575,1,  126466,126466,1580,1,  126467,126467,1583,1,
    126469,126469,1608,1,  126470,126470,1586,1,  126471,126471,1581,1,  126472,126472,1591,1,
    126473,126473,1610,1,  126474,126477,1603,1,  126478,126478,1587,1,  126479,126479,1593,1,
    126480,126480,1601,1,  126481,126481,1589,1,  126482,126482,1602,1,  126483,126483,1585,1,
    126484,126484,1588,1,  126485,126486,1578,1,  126487,126487,1582,1,  126488,126488,1584,1,
    126489,126489,1590,1,  126490,126490,1592,1,  126491,126491,1594,1,  126492,126492,1646,1,
    126493,126493,1722,1,  126494,126494,1697,1,  126495,126495,1647,1,  126497,126497,1576,1,
    126498,126498,1580,1,  126500,126500,1607,1,  126503,126503,1581,1,  126505,126505,1610,1,
    126506,126509,1603,1,  126510,126510,1587,1,  126511,126511,1593,1,  126512,126512,1601,1,
    126513,126513,1589,1,  126514,126514,1602,1,  126516,126516,1588,1,  126517,126518,1578,1,
    126519,126519,1582,1,  126521,126521,1590,1,  126523,126523,1594,1,  126530,126530,1580,1,
    126535,126535,1581,1,  126537,126537,1610,1,  126539,126541,1604,2,  126542,126542,1587,1,
    126543,126543,1593,1,  126545,126545,1589,1,  126546,126546,1602,1,  126548,126548,1588,1,
    126551,126551,1582,1,  126553,126553,1590,1,  126555,126555,1594,1,  126557,126557,1722,1,
    126559,126559,1647,1,  126561,126561,1576,1,  126562,126562,1580,1,  126564,126564,1607,1,
    126567,126567,1581,1,  126568,126568,1591,1,  126569,126569,1610,1,  126570,126572,1603,2,
    126573,126573,1606,1,  126574,126574,1587,1,  126575,126575,1593,1,  126576,126576,1601,1,
    126577,126577,1589,1,  126578,126578,1602,1,  126580,126580,1588,1,  126581,126582,1578,1,
    126583,126583,1582,1,  126585,126585,1590,1,  126586,126586,1592,1,  126587,126587,1594,1,
    126588,126588,1646,1,  126590,126590,1697,1,  126592,126593,1575,1,  126594,126594,1580,1,
    126595,126595,1583,1,  126596,126597,1607,1,  126598,126598,1586,1,  126599,126599,1581,1,
    126600,126600,1591,1,  126601,126601,1610,1,  126603,126605,1604,1,  126606,126606,1587,1,
    126607,126607,1593,1,  126608,126608,1601,1,  126609,126609,1589,1,  126610,126610,1602,1,
    126611,126611,1585,1,  126612,126612,1588,1,  126613,126614,1578,1,  126615,126615,1582,1,
    126616,126616,1584,1,  126617,126617,1590,1,  126618,126618,1592,1,  126619,126619,1594,1,
    126625,126625,1576,1,  126626,126626,1580,1,  126627,126627,1583,1,  126629,126629,1608,1,
    126630,126630,1586,1,  126631,126631,1581,1,  126632,126632,1591,1,  126633,126633,1610,1,
    126635,126637,1604,1,  126638,126638,1587,1,  126639,126639,1593,1,  126640,126640,1601,1,
    126641,126641,1589,1,  126642,126642,1602,1,  126643,126643,1585,1,  126644,126644,1588,1,
    126645,126646,1578,1,  126647,126647,1582,1,  126648,126648,1584,1,  126649,126649,1590,1,
    126650,126650,1592,1,  126651,126651,1594,1,  127275,127275,99,1,  127276,127276,114,1,
    127280,127305,97,1,  127490,127490,12469,1,  127504,127504,25163,1,  127505,127505,23383,1,
    127506,127506,21452,1,  127507,127507,12487,1,  127508,127508,20108,1,
    127509,127509,22810,1,  127510,127510,35299,1,  127511,127511,22825,1,
    127512,127512,20132,1,  127513,127513,26144,1,  127514,127514,28961,1,
    127515,127515,26009,1,  127516,127516,21069,1,  127517,127517,24460,1,
    127518,127518,20877,1,  127519,127519,26032,1,  127520,127520,21021,1,
    127521,127521,32066,1,  127522,127522,29983,1,  127523,127523,36009,1,
    127524,127524,22768,1,  127525,127525,21561,1,  127526,127526,28436,1,
    127527,127527,25237,1,  127528,127528,25429,1,  127529,127529,19968,1,
    127530,127530,19977,1,  127531,127531,36938,1,  127532,127532,24038,1,
    127533,127533,20013,1,  127534,127534,21491,1,  127535,127535,25351,1,
    127536,127536,36208,1,  127537,127537,25171,1,  127538,127538,31105,1,
    127539,127539,31354,1,  127540,127540,21512,1,  127541,127541,28288,1,
    127542,127542,26377,1,  127543,127543,26376,1,  127544,127544,30003,1,
    127545,127545,21106,1,  127546,127546,21942,1,  127547,127547,37197,1,
    127568,127568,24471,1,  127569,127569,21487,1,  130032,130041,48,1,  194560,194560,20029,1,
    194561,194561,20024,1,  194562,194562,20033,1,  194563,194563,131362,1,
    194564,194564,20320,1,  194565,194565,20398,1,  194566,194566,20411,1,
    194567,194567,20482,1,  194568,194568,20602,1,  194569,194569,20633,1,
    194570,194570,20711,1,  194571,194571,20687,1,  194572,194572,13470,1,
    194573,194573,132666,1,  194574,194574,20813,1,  194575,194575,20820,1,
    194576,194576,20836,1,  194577,194577,20855,1,  194578,194578,132380,1,
    194579,194579,13497,1,  194580,194580,20839,1,  194581,194581,20877,1,
    194582,194582,132427,1,  194583,194583,20887,1,  194584,194584,20900,1,
    194585,194585,20172,1,  194586,194586,20908,1,  194587,194587,20917,1,
    194588,194588,168415,1,  194589,194589,20981,1,  194590,194590,20995,1,
    194591,194591,13535,1,  194592,194592,21051,1,  194593,194593,21062,1,
    194594,194594,21106,1,  194595,194595,21111,1,  194596,194596,13589,1,
    194597,194597,21191,1,  194598,194598,21193,1,  194599,194599,21220,1,
    194600,194600,21242,1,  194601,194602,21253,1,  194603,194603,21271,1,
    194604,194604,21321,1,  194605,194605,21329,1,  194606,194606,21338,1,
    194607,194607,21363,1,  194608,194608,21373,1,  194609,194609,21375,1,
    194610,194610,21375,1,  194611,194611,21375,1,  194612,194612,133676,1,
    194613,194613,28784,1,  194614,194614,21450,1,  194615,194615,21471,1,
    194616,194616,133987,1,  194617,194617,21483,1,  194618,194618,21489,1,
    194619,194619,21510,1,  194620,194620,21662,1,  194621,194621,21560,1,
    194622,194622,21576,1,  194623,194623,21608,1,  194624,194624,21666,1,
    194625,194625,21750,1,  194626,194626,21776,1,  194627,194627,21843,1,
    194628,194628,21859,1,  194629,194629,21892,1,  194630,194630,21892,1,
    194631,194631,21913,1,  194632,194632,21931,1,  194633,194633,21939,1,
    194634,194634,21954,1,  194635,194635,22294,1,  194636,194636,22022,1,
    194637,194637,22295,1,  194638,194638,22097,1,  194639,194639,22132,1,
    194640,194640,20999,1,  194641,194641,22766,1,  194642,194642,22478,1,
    194643,194643,22516,1,  194644,194644,22541,1,  194645,194645,22411,1,
    194646,194646,22578,1,  194647,194647,22577,1,  194648,194648,22700,1,
    194649,194649,136420,1,  194650,194650,22770,1,  194651,194651,22775,1,
    194652,194652,22790,1,  194653,194653,22810,1,  194654,194654,22818,1,
    194655,194655,22882,1,  194656,194656,136872,1,  194657,194657,136938,1,
    194658,194658,23020,1,  194659,194659,23067,1,  194660,194660,23079,1,
    194661,194661,23000,1,  194662,194662,23142,1,  194663,194663,14062,1,
    194665,194665,23304,1,  194666,194666,23358,1,  194667,194667,23358,1,
    194668,194668,137672,1,  194669,194669,23491,1,  194670,194670,23512,1,
    194671,194671,23527,1,  194672,194672,23539,1,  194673,194673,138008,1,
    194674,194674,23551,1,  194675,194675,23558,1,  194677,194677,23586,1,
    194678,194678,14209,1,  194679,194679,23648,1,  194680,194680,23662,1,
    194681,194681,23744,1,  194682,194682,23693,1,  194683,194683,138724,1,
    194684,194684,23875,1,  194685,194685,138726,1,  194686,194686,23918,1,
    194687,194687,23915,1,  194688,194688,23932,1,  194689,194690,24033,1,
    194691,194691,14383,1,  194692,194692,24061,1,  194693,194693,24104,1,
    194694,194694,24125,1,  194695,194695,24169,1,  194696,194696,14434,1,
    194697,194697,139651,1,  194698,194698,14460,1,  194699,194699,24240,1,
    194700,194700,24243,1,  194701,194701,24246,1,  194702,194702,24266,1,
    194703,194703,172946,1,  194704,194704,24318,1,  194705,194705,140081,1,
    194706,194706,140081,1,  194707,194707,33281,1,  194708,194708,24354,1,
    194709,194709,24354,1,  194710,194710,14535,1,  194711,194711,144056,1,
    194712,194712,156122,1,  194713,194713,24418,1,  194714,194714,24427,1,
    194715,194715,14563,1,  194716,194716,24474,1,  194717,194717,24525,1,
    194718,194718,24535,1,  194719,194719,24569,1,  194720,194720,24705,1,
    194721,194721,14650,1,  194722,194722,14620,1,  194723,194723,24724,1,
    194724,194724,141012,1,  194725,194725,24775,1,  194726,194726,24904,1,
    194727,194727,24908,1,  194728,194728,24910,1,  194729,194729,24908,1,
    194730,194730,24954,1,  194731,194731,24974,1,  194732,194732,25010,1,
    194733,194733,24996,1,  194734,194734,25007,1,  194735,194735,25054,1,
    194736,194736,25074,1,  194737,194737,25078,1,  194738,194738,25104,1,
    194739,194739,25115,1,  194740,194740,25181,1,  194741,194741,25265,1,
    194742,194742,25300,1,  194743,194743,25424,1,  194744,194744,142092,1,
    194745,194745,25405,1,  194746,194746,25340,1,  194747,194747,25448,1,
    194748,194748,25475,1,  194749,194749,25572,1,  194750,194750,142321,1,
    194751,194751,25634,1,  194752,194752,25541,1,  194753,194753,25513,1,
    194754,194754,14894,1,  194755,194755,25705,1,  194756,194756,25726,1,
    194757,194757,25757,1,  194758,194758,25719,1,  194759,194759,14956,1,
    194760,194760,25935,1,  194761,194761,25964,1,  194762,194762,143370,1,
    194763,194763,26083,1,  194764,194764,26360,1,  194765,194765,26185,1,
    194766,194766,15129,1,  194767,194767,26257,1,  194768,194768,15112,1,
    194769,194769,15076,1,  194770,194770,20882,1,  194771,194771,20885,1,
    194772,194772,26368,1,  194773,194773,26268,1,  194774,194774,32941,1,
    194775,194775,17369,1,  194776,194776,26391,1,  194777,194777,26395,1,
    194778,194778,26401,1,  194779,194779,26462,1,  194780,194780,26451,1,
    194781,194781,144323,1,  194782,194782,15177,1,  194783,194783,26618,1,
    194784,194784,26501,1,  194785,194785,26706,1,  194786,194786,26757,1,
    194787,194787,144493,1,  194788,194788,26766,1,  194789,194789,26655,1,
    194790,194790,26900,1,  194791,194791,15261,1,  194792,194792,26946,1,
    194793,194793,27043,1,  194794,194794,27114,1,  194795,194795,27304,1,
    194796,194796,145059,1,  194797,194797,27355,1,  194798,194798,15384,1,
    194799,194799,27425,1,  194800,194800,145575,1,  194801,194801,27476,1,
    194802,194802,15438,1,  194803,194803,27506,1,  194804,194804,27551,1,
    194805,194806,27578,1,  194807,194807,146061,1,  194808,194808,138507,1,
    194809,194809,146170,1,  194810,194810,27726,1,  194811,194811,146620,1,
    194812,194812,27839,1,  194813,194813,27853,1,  194814,194814,27751,1,
    194815,194815,27926,1,  194816,194816,27966,1,  194817,194817,28023,1,
    194818,194818,27969,1,  194819,194819,28009,1,  194820,194820,28024,1,
    194821,194821,28037,1,  194822,194822,146718,1,  194823,194823,27956,1,
    194824,194824,28207,1,  194825,194825,28270,1,  194826,194826,15667,1,
    194827,194827,28363,1,  194828,194828,28359,1,  194829,194829,147153,1,
    194830,194830,28153,1,  194831,194831,28526,1,  194832,194832,147294,1,
    194833,194833,147342,1,  194834,194834,28614,1,  194835,194835,28729,1,
    194836,194836,28702,1,  194837,194837,28699,1,  194838,194838,15766,1,
    194839,194839,28746,1,  194840,194840,28797,1,  194841,194841,28791,1,
    194842,194842,28845,1,  194843,194843,132389,1,  194844,194844,28997,1,
    194845,194845,148067,1,  194846,194846,29084,1,  194848,194848,29224,1,
    194849,194849,29237,1,  194850,194850,29264,1,  194851,194851,149000,1,
    194852,194852,29312,1,  194853,194853,29333,1,  194854,194854,149301,1,
    194855,194855,149524,1,  194856,194856,29562,1,  194857,194857,29579,1,
    194858,194858,16044,1,  194859,194859,29605,1,  194860,194860,16056,1,
    194861,194861,16056,1,  194862,194862,29767,1,  194863,194863,29788,1,
    194864,194864,29809,1,  194865,194865,29829,1,  194866,194866,29898,1,
    194867,194867,16155,1,  194868,194868,29988,1,  194869,194869,150582,1,
    194870,194870,30014,1,  194871,194871,150674,1,  194872,194872,30064,1,
    194873,194873,139679,1,  194874,194874,30224,1,  194875,194875,151457,1,
    194876,194876,151480,1,  194877,194877,151620,1,  194878,194878,16380,1,
    194879,194879,16392,1,  194880,194880,30452,1,  194881,194881,151795,1,
    194882,194882,151794,1,  194883,194883,151833,1,  194884,194884,151859,1,
    194885,194886,30494,1,  194887,194887,30495,1,  194888,194888,30538,1,
    194889,194889,16441,1,  194890,194890,30603,1,  194891,194891,16454,1,
    194892,194892,16534,1,  194893,194893,152605,1,  194894,194894,30798,1,
    194895,194895,30860,1,  194896,194896,30924,1,  194897,194897,16611,1,
    194898,194898,153126,1,  194899,194899,31062,1,  194900,194900,153242,1,
    194901,194901,153285,1,  194902,194902,31119,1,  194903,194903,31211,1,
    194904,194904,16687,1,  194905,194905,31296,1,  194906,194906,31306,1,
    194907,194907,31311,1,  194908,194908,153980,1,  194909,194909,154279,1,
    194910,194910,154279,1,  194912,194912,16898,1,  194913,194913,154539,1,
    194914,194914,31686,1,  194915,194915,31689,1,  194916,194916,16935,1,
    194917,194917,154752,1,  194918,194918,31954,1,  194919,194919,17056,1,
    194920,194920,31976,1,  194921,194921,31971,1,  194922,194922,32000,1,
    194923,194923,155526,1,  194924,194924,32099,1,  194925,194925,17153,1,
    194926,194926,32199,1,  194927,194927,32258,1,  194928,194928,32325,1,
    194929,194929,17204,1,  194930,194930,156200,1,  194931,194931,156231,1,
    194932,194932,17241,1,  194933,194933,156377,1,  194934,194934,32634,1,
    194935,194935,156478,1,  194936,194936,32661,1,  194937,194937,32762,1,
    194938,194938,32773,1,  194939,194939,156890,1,  194940,194940,156963,1,
    194941,194941,32864,1,  194942,194942,157096,1,  194943,194943,32880,1,
    194944,194944,144223,1,  194945,194945,17365,1,  194946,194946,32946,1,
    194947,194947,33027,1,  194948,194948,17419,1,  194949,194949,33086,1,
    194950,194950,23221,1,  194951,194951,157607,1,  194952,194952,157621,1,
    194953,194953,144275,1,  194954,194954,144284,1,  194955,194955,33281,1,
    194956,194956,33284,1,  194957,194957,36766,1,  194958,194958,17515,1,
    194959,194959,33425,1,  194960,194960,33419,1,  194961,194961,33437,1,
    194962,194962,21171,1,  194963,194963,33457,1,  194964,194964,33459,1,
    194965,194965,33469,1,  194966,194966,33510,1,  194967,194967,158524,1,
    194968,194968,33509,1,  194969,194969,33565,1,  194970,194970,33635,1,
    194971,194971,33709,1,  194972,194972,33571,1,  194973,194973,33725,1,
    194974,194974,33767,1,  194975,194975,33879,1,  194976,194976,33619,1,
    194977,194977,33738,1,  194978,194978,33740,1,  194979,194979,33756,1,
    194980,194980,158774,1,  194981,194981,159083,1,  194982,194982,158933,1,
    194983,194983,17707,1,  194984,194984,34033,1,  194985,194985,34035,1,
    194986,194986,34070,1,  194987,194987,160714,1,  194988,194988,34148,1,
    194989,194989,159532,1,  194990,194990,17757,1,  194991,194991,17761,1,
    194992,194992,159665,1,  194993,194993,159954,1,  194994,194994,17771,1,
    194995,194995,34384,1,  194996,194996,34396,1,  194997,194997,34407,1,
    194998,194998,34409,1,  194999,194999,34473,1,  195000,195000,34440,1,
    195001,195001,34574,1,  195002,195002,34530,1,  195003,195003,34681,1,
    195004,195004,34600,1,  195005,195005,34667,1,  195006,195006,34694,1,
    195008,195008,34785,1,  195009,195009,34817,1,  195010,195010,17913,1,
    195011,195011,34912,1,  195012,195012,34915,1,  195013,195013,161383,1,
    195014,195014,35031,1,  195015,195015,35038,1,  195016,195016,17973,1,
    195017,195017,35066,1,  195018,195018,13499,1,  195019,195019,161966,1,
    195020,195020,162150,1,  195021,195021,18110,1,  195022,195022,18119,1,
    195023,195023,35488,1,  195024,195024,35565,1,  195025,195025,35722,1,
    195026,195026,35925,1,  195027,195027,162984,1,  195028,195028,36011,1,
    195029,195029,36033,1,  195030,195030,36123,1,  195031,195031,36215,1,
    195032,195032,163631,1,  195033,195033,133124,1,  195034,195034,36299,1,
    195035,195035,36284,1,  195036,195036,36336,1,  195037,195037,133342,1,
    195038,195038,36564,1,  195039,195039,36664,1,  195040,195040,165330,1,
    195041,195041,165357,1,  195042,195042,37012,1,  195043,195043,37105,1,
    195044,195044,37137,1,  195045,195045,165678,1,  195046,195046,37147,1,
    195047,195047,37432,1,  195048,195049,37591,1,  195050,195050,37500,1,
    195051,195051,37881,1,  195052,195052,37909,1,  195053,195053,166906,1,
    195054,195054,38283,1,  195055,195055,18837,1,  195056,195056,38327,1,
    195057,195057,167287,1,  195058,195058,18918,1,  195059,195059,38595,1,
    195060,195060,23986,1,  195061,195061,38691,1,  195062,195062,168261,1,
    195063,195063,168474,1,  195064,195064,19054,1,  195065,195065,19062,1,
    195066,195066,38880,1,  195067,195067,168970,1,  195068,195068,19122,1,
    195069,195069,169110,1,  195070,195070,38923,1,  195071,195071,38923,1,
    195072,195072,38953,1,  195073,195073,169398,1,  195074,195074,39138,1,
    195075,195075,19251,1,  195076,195076,39209,1,  195077,195077,39335,1,
    195078,195078,39362,1,  195079,195079,39422,1,  195080,195080,19406,1,
    195081,195081,170800,1,  195082,195082,39698,1,  195083,195083,40000,1,
    195084,195084,40189,1,  195085,195085,19662,1,  195086,195086,19693,1,
    195087,195087,40295,1,  195088,195088,172238,1,  195089,195089,19704,1,
    195090,195090,172293,1,  195091,195091,172558,1,  195092,195092,172689,1,
    195093,195093,40635,1,  195094,195094,19798,1,  195095,195095,40697,1,
    195096,195096,40702,1,  195097,195097,40709,1,  195098,195098,40719,1,
    195099,195099,40726,1,  195100,195100,40763,1,  195101,195101,173568,1 >>

\* status mapped, to several code points: the code point and the up to 6 code
\* points of its mapping (U+FDFA and U+FDFB, which map to more, are in IdnaMap)
IdnaMapMany ==
  << 168,32,776,0,0,0,0,  175,32,772,0,0,0,0,  180,32,769,0,0,0,0,  184,32,807,0,0,0,0,
    188,49,8260,52,0,0,0,  189,49,8260,50,0,0,0,  190,51,8260,52,0,0,0,  304,105,775,0,0,0,0,
    306,105,106,0,0,0,0,  307,105,106,0,0,0,0,  319,108,183,0,0,0,0,  320,108,183,0,0,0,0,
    329,700,110,0,0,0,0,  452,100,382,0,0,0,0,  453,100,382,0,0,0,0,  454,100,382,0,0,0,0,
    455,108,106,0,0,0,0,  456,108,106,0,0,0,0,  457,108,106,0,0,0,0,  458,110,106,0,0,0,0,
    459,110,106,0,0,0,0,  460,110,106,0,0,0,0,  497,100,122,0,0,0,0,  498,100,122,0,0,0,0,
    499,100,122,0,0,0,0,  728,32,774,0,0,0,0,  729,32,775,0,0,0,0,  730,32,778,0,0,0,0,
    731,32,808,0,0,0,0,  732,32,771,0,0,0,0,  733,32,779,0,0,0,0,  836,776,769,0,0,0,0,
    890,32,953,0,0,0,0,  900,32,769,0,0,0,0,  901,32,776,769,0,0,0,  1415,1381,1410,0,0,0,0,
    1653,1575,1652,0,0,0,0,  1654,1608,1652,0,0,0,0,  1655,1735,1652,0,0,0,0,
    1656,1610,1652,0,0,0,0,  2392,2325,2364,0,0,0,0,  2393,2326,2364,0,0,0,0,
    2394,2327,2364,0,0,0,0,  2395,2332,2364,0,0,0,0,  2396,2337,2364,0,0,0,0,
    2397,2338,2364,0,0,0,0,  2398,2347,2364,0,0,0,0,  2399,2351,2364,0,0,0,0,
    2524,2465,2492,0,0,0,0,  2525,2466,2492,0,0,0,0,  2527,2479,2492,0,0,0,0,
    2611,2610,2620,0,0,0,0,  2614,2616,2620,0,0,0,0,  2649,2582,2620,0,0,0,0,
    2650,2583,2620,0,0,0,0,  2651,2588,2620,0,0,0,0,  2654,2603,2620,0,0,0,0,
    2908,2849,2876,0,0,0,0,  2909,2850,2876,0,0,0,0,  3635,3661,3634,0,0,0,0,
    3763,3789,3762,0,0,0,0,  3804,3755,3737,0,0,0,0,  3805,3755,3745,0,0,0,0,
    3907,3906,4023,0,0,0,0,  3917,3916,4023,0,0,0,0,  3922,3921,4023,0,0,0,0,
    3927,3926,4023,0,0,0,0,  3932,3931,4023,0,0,0,0,  3945,3904,4021,0,0,0,0,
    3955,3953,3954,0,0,0,0,  3957,3953,3956,0,0,0,0,  3958,4018,3968,0,0,0,0,
    3959,4018,3953,3968,0,0,0,  3960,4019,3968,0,0,0,0,  3961,4019,3953,3968,0,0,0,
    3969,3953,3968,0,0,0,0,  3987,3986,4023,0,0,0,0,  3997,3996,4023,0,0,0,0,
    4002,4001,4023,0,0,0,0,  4007,4006,4023,0,0,0,0,  4012,4011,4023,0,0,0,0,
    4025,3984,4021,0,0,0,0,  7834,97,702,0,0,0,0,  7838,115,115,0,0,0,0,  8064,7936,953,0,0,0,0,
    8065,7937,953,0,0,0,0,  8066,7938,953,0,0,0,0,  8067,7939,953,0,0,0,0,
    8068,7940,953,0,0,0,0,  8069,7941,953,0,0,0,0,  8070,7942,953,0,0,0,0,
    8071,7943,953,0,0,0,0,  8072,7936,953,0,0,0,0,  8073,7937,953,0,0,0,0,
    8074,7938,953,0,0,0,0,  8075,7939,953,0,0,0,0,  8076,7940,953,0,0,0,0,
    8077,7941,953,0,0,0,0,  8078,7942,953,0,0,0,0,  8079,7943,953,0,0,0,0,
    8080,7968,953,0,0,0,0,  8081,7969,953,0,0,0,0,  8082,7970,953,0,0,0,0,
    8083,7971,953,0,0,0,0,  8084,7972,953,0,0,0,0,  8085,7973,953,0,0,0,0,
    8086,7974,953,0,0,0,0,  8087,7975,953,0,0,0,0,  8088,7968,953,0,0,0,0,
    8089,7969,953,0,0,0,0,  8090,7970,953,0,0,0,0,  8091,7971,953,0,0,0,0,
    8092,7972,953,0,0,0,0,  8093,7973,953,0,0,0,0,  8094,7974,953,0,0,0,0,
    8095,7975,953,0,0,0,0,  8096,8032,953,0,0,0,0,  8097,8033,953,0,0,0,0,
    8098,8034,953,0,0,0,0,  8099,8035,953,0,0,0,0,  8100,8036,953,0,0,0,0,
    8101,8037,953,0,0,0,0,  8102,8038,953,0,0,0,0,  8103,8039,953,0,0,0,0,
    8104,8032,953,0,0,0,0,  8105,8033,953,0,0,0,0,  8106,8034,953,0,0,0,0,
    8107,8035,953,0,0,0,0,  8108,8036,953,0,0,0,0,  8109,8037,953,0,0,0,0,
    8110,8038,953,0,0,0,0,  8111,8039,953,0,0,0,0,  8114,8048,953,0,0,0,0,
    8115,945,953,0,0,0,0,  8116,940,953,0,0,0,0,  8119,8118,953,0,0,0,0,  8124,945,953,0,0,0,0,
    8125,32,787,0,0,0,0,  8127,32,787,0,0,0,0,  8128,32,834,0,0,0,0,  8129,32,776,834,0,0,0,
    8130,8052,953,0,0,0,0,  8131,951,953,0,0,0,0,  8132,942,953,0,0,0,0,  8135,8134,953,0,0,0,0,
    8140,951,953,0,0,0,0,  8141,32,787,768,0,0,0,  8142,32,787,769,0,0,0,
    8143,32,787,834,0,0,0,  8157,32,788,768,0,0,0,  8158,32,788,769,0,0,0,
    8159,32,788,834,0,0,0,  8173,32,776,768,0,0,0,  8174,32,776,769,0,0,0,
    8178,8060,953,0,0,0,0,  8179,969,953,0,0,0,0,  8180,974,953,0,0,0,0,  8183,8182,953,0,0,0,0,
    8188,969,953,0,0,0,0,  8189,32,769,0,0,0,0,  8190,32,788,0,0,0,0,  8215,32,819,0,0,0,0,
    8243,8242,8242,0,0,0,0,  8244,8242,8242,8242,0,0,0,  8246,8245,8245,0,0,0,0,
    8247,8245,8245,8245,0,0,0,  8252,33,33,0,0,0,0,  8254,32,773,0,0,0,0,  8263,63,63,0,0,0,0,
    8264,63,33,0,0,0,0,  8265,33,63,0,0,0,0,  8279,8242,8242,8242,8242,0,0,
    8360,114,115,0,0,0,0,  8448,97,47,99,0,0,0,  8449,97,47,115,0,0,0,  8451,176,99,0,0,0,0,
    8453,99,47,111,0,0,0,  8454,99,47,117,0,0,0,  8457,176,102,0,0,0,0,  8470,110,111,0,0,0,0,
    8480,115,109,0,0,0,0,  8481,116,101,108,0,0,0,  8482,116,109,0,0,0,0,
    8507,102,97,120,0,0,0,  8528,49,8260,55,0,0,0,  8529,49,8260,57,0,0,0,
    8530,49,8260,49,48,0,0,  8531,49,8260,51,0,0,0,  8532,50,8260,51,0,0,0,
    8533,49,8260,53,0,0,0,  8534,50,8260,53,0,0,0,  8535,51,8260,53,0,0,0,
    8536,52,8260,53,0,0,0,  8537,49,8260,54,0,0,0,  8538,53,8260,54,0,0,0,
    8539,49,8260,56,0,0,0,  8540,51,8260,56,0,0,0,  8541,53,8260,56,0,0,0,
    8542,55,8260,56,0,0,0,  8543,49,8260,0,0,0,0,  8545,105,105,0,0,0,0,
    8546,105,105,105,0,0,0,  8547,105,118,0,0,0,0,  8549,118,105,0,0,0,0,
    8550,118,105,105,0,0,0,  8551,118,105,105,105,0,0,  8552,105,120,0,0,0,0,
    8554,120,105,0,0,0,0,  8555,120,105,105,0,0,0,  8561,105,105,0,0,0,0,
    8562,105,105,105,0,0,0,  8563,105,118,0,0,0,0,  8565,118,105,0,0,0,0,
    8566,118,105,105,0,0,0,  8567,118,105,105,105,0,0,  8568,105,120,0,0,0,0,
    8570,120,105,0,0,0,0,  8571,120,105,105,0,0,0,  8585,48,8260,51,0,0,0,
    8748,8747,8747,0,0,0,0,  8749,8747,8747,8747,0,0,0,  8751,8750,8750,0,0,0,0,
    8752,8750,8750,8750,0,0,0,  9321,49,48,0,0,0,0,  9322,49,49,0,0,0,0,  9323,49,50,0,0,0,0,
    9324,49,51,0,0,0,0,  9325,49,52,0,0,0,0,  9326,49,53,0,0,0,0,  9327,49,54,0,0,0,0,
    9328,49,55,0,0,0,0,  9329,49,56,0,0,0,0,  9330,49,57,0,0,0,0,  9331,50,48,0,0,0,0,
    9332,40,49,41,0,0,0,  9333,40,50,41,0,0,0,  9334,40,51,41,0,0,0,  9335,40,52,41,0,0,0,
    9336,40,53,41,0,0,0,  9337,40,54,41,0,0,0,  9338,40,55,41,0,0,0,  9339,40,56,41,0,0,0,
    9340,40,57,41,0,0,0,  9341,40,49,48,41,0,0,  9342,40,49,49,41,0,0,  9343,40,49,50,41,0,0,
    9344,40,49,51,41,0,0,  9345,40,49,52,41,0,0,  9346,40,49,53,41,0,0,  9347,40,49,54,41,0,0,
    9348,40,49,55,41,0,0,  9349,40,49,56,41,0,0,  9350,40,49,57,41,0,0,  9351,40,50,48,41,0,0,
    9372,40,97,41,0,0,0,  9373,40,98,41,0,0,0,  9374,40,99,41,0,0,0,  9375,40,100,41,0,0,0,
    9376,40,101,41,0,0,0,  9377,40,102,41,0,0,0,  9378,40,103,41,0,0,0,  9379,40,104,41,0,0,0,
    9380,40,105,41,0,0,0,  9381,40,106,41,0,0,0,  9382,40,107,41,0,0,0,  9383,40,108,41,0,0,0,
    9384,40,109,41,0,0,0,  9385,40,110,41,0,0,0,  9386,40,111,41,0,0,0,  9387,40,112,41,0,0,0,
    9388,40,113,41,0,0,0,  9389,40,114,41,0,0,0,  9390,40,115,41,0,0,0,  9391,40,116,41,0,0,0,
    9392,40,117,41,0,0,0,  9393,40,118,41,0,0,0,  9394,40,119,41,0,0,0,  9395,40,120,41,0,0,0,
    9396,40,121,41,0,0,0,  9397,40,122,41,0,0,0,  10764,8747,8747,8747,8747,0,0,
    10868,58,58,61,0,0,0,  10869,61,61,0,0,0,0,  10870,61,61,61,0,0,0,  10972,10973,824,0,0,0,0,
    12443,32,12441,0,0,0,0,  12444,32,12442,0,0,0,0,  12447,12424,12426,0,0,0,0,
    12543,12467,12488,0,0,0,0,  12800,40,4352,41,0,0,0,  12801,40,4354,41,0,0,0,
    12802,40,4355,41,0,0,0,  12803,40,4357,41,0,0,0,  12804,40,4358,41,0,0,0,
    12805,40,4359,41,0,0,0,  12806,40,4361,41,0,0,0,  12807,40,4363,41,0,0,0,
    12808,40,4364,41,0,0,0,  12809,40,4366,41,0,0,0,  12810,40,4367,41,0,0,0,
    12811,40,4368,41,0,0,0,  12812,40,4369,41,0,0,0,  12813,40,4370,41,0,0,0,
    12814,40,44032,41,0,0,0,  12815,40,45208,41,0,0,0,  12816,40,45796,41,0,0,0,
    12817,40,46972,41,0,0,0,  12818,40,47560,41,0,0,0,  12819,40,48148,41,0,0,0,
    12820,40,49324,41,0,0,0,  12821,40,50500,41,0,0,0,  12822,40,51088,41,0,0,0,
    12823,40,52264,41,0,0,0,  12824,40,52852,41,0,0,0,  12825,40,53440,41,0,0,0,
    12826,40,54028,41,0,0,0,  12827,40,54616,41,0,0,0,  12828,40,51452,41,0,0,0,
    12829,40,50724,51204,41,0,0,  12830,40,50724,54980,41,0,0,  12832,40,19968,41,0,0,0,
    12833,40,20108,41,0,0,0,  12834,40,19977,41,0,0,0,  12835,40,22235,41,0,0,0,
    12836,40,20116,41,0,0,0,  12837,40,20845,41,0,0,0,  12838,40,19971,41,0,0,0,
    12839,40,20843,41,0,0,0,  12840,40,20061,41,0,0,0,  12841,40,21313,41,0,0,0,
    12842,40,26376,41,0,0,0,  12843,40,28779,41,0,0,0,  12844,40,27700,41,0,0,0,
    12845,40,26408,41,0,0,0,  12846,40,37329,41,0,0,0,  12847,40,22303,41,0,0,0,
    12848,40,26085,41,0,0,0,  12849,40,26666,41,0,0,0,  12850,40,26377,41,0,0,0,
    12851,40,31038,41,0,0,0,  12852,40,21517,41,0,0,0,  12853,40,29305,41,0,0,0,
    12854,40,36001,41,0,0,0,  12855,40,31069,41,0,0,0,  12856,40,21172,41,0,0,0,
    12857,40,20195,41,0,0,0,  12858,40,21628,41,0,0,0,  12859,40,23398,41,0,0,0,
    12860,40,30435,41,0,0,0,  12861,40,20225,41,0,0,0,  12862,40,36039,41,0,0,0,
    12863,40,21332,41,0,0,0,  12864,40,31085,41,0,0,0,  12865,40,20241,41,0,0,0,
    12866,40,33258,41,0,0,0,  12867,40,33267,41,0,0,0,  12880,112,116,101,0,0,0,
    12881,50,49,0,0,0,0,  12882,50,50,0,0,0,0,  12883,50,51,0,0,0,0,  12884,50,52,0,0,0,0,
    12885,50,53,0,0,0,0,  12886,50,54,0,0,0,0,  12887,50,55,0,0,0,0,  12888,50,56,0,0,0,0,
    12889,50,57,0,0,0,0,  12890,51,48,0,0,0,0,  12891,51,49,0,0,0,0,  12892,51,50,0,0,0,0,
    12893,51,51,0,0,0,0,  12894,51,52,0,0,0,0,  12895,51,53,0,0,0,0,  12924,52280,44256,0,0,0,0,
    12925,51452,51032,0,0,0,0,  12977,51,54,0,0,0,0,  12978,51,55,0,0,0,0,  12979,51,56,0,0,0,0,
    12980,51,57,0,0,0,0,  12981,52,48,0,0,0,0,  12982,52,49,0,0,0,0,  12983,52,50,0,0,0,0,
    12984,52,51,0,0,0,0,  12985,52,52,0,0,0,0,  12986,52,53,0,0,0,0,  12987,52,54,0,0,0,0,
    12988,52,55,0,0,0,0,  12989,52,56,0,0,0,0,  12990,52,57,0,0,0,0,  12991,53,48,0,0,0,0,
    12992,49,26376,0,0,0,0,  12993,50,26376,0,0,0,0,  12994,51,26376,0,0,0,0,
    12995,52,26376,0,0,0,0,  12996,53,26376,0,0,0,0,  12997,54,26376,0,0,0,0,
    12998,55,26376,0,0,0,0,  12999,56,26376,0,0,0,0,  13000,57,26376,0,0,0,0,
    13001,49,48,26376,0,0,0,  13002,49,49,26376,0,0,0,  13003,49,50,26376,0,0,0,
    13004,104,103,0,0,0,0,  13005,101,114,103,0,0,0,  13006,101,118,0,0,0,0,
    13007,108,116,100,0,0,0,  13055,20196,21644,0,0,0,0,  13056,12450,12497,12540,12488,0,0,
    13057,12450,12523,12501,12449,0,0,  13058,12450,12531,12506,12450,0,0,
    13059,12450,12540,12523,0,0,0,  13060,12452,12491,12531,12464,0,0,
    13061,12452,12531,12481,0,0,0,  13062,12454,12457,12531,0,0,0,
    13063,12456,12473,12463,12540,12489,0,  13064,12456,12540,12459,12540,0,0,
    13065,12458,12531,12473,0,0,0,  13066,12458,12540,12512,0,0,0,
    13067,12459,12452,12522,0,0,0,  13068,12459,12521,12483,12488,0,0,
    13069,12459,12525,12522,12540,0,0,  13070,12460,12525,12531,0,0,0,
    13071,12460,12531,12510,0,0,0,  13072,12462,12460,0,0,0,0,  13073,12462,12491,12540,0,0,0,
    13074,12461,12517,12522,12540,0,0,  13075,12462,12523,12480,12540,0,0,
    13076,12461,12525,0,0,0,0,  13077,12461,12525,12464,12521,12512,0,
    13078,12461,12525,12513,12540,12488,12523,  13079,12461,12525,12527,12483,12488,0,
    13080,12464,12521,12512,0,0,0,  13081,12464,12521,12512,12488,12531,0,
    13082,12463,12523,12476,12452,12525,0,  13083,12463,12525,12540,12493,0,0,
    13084,12465,12540,12473,0,0,0,  13085,12467,12523,12490,0,0,0,
    13086,12467,12540,12509,0,0,0,  13087,12469,12452,12463,12523,0,0,
    13088,12469,12531,12481,12540,12512,0,  13089,12471,12522,12531,12464,0,0,
    13090,12475,12531,12481,0,0,0,  13091,12475,12531,12488,0,0,0,
    13092,12480,12540,12473,0,0,0,  13093,12487,12471,0,0,0,0,  13094,12489,12523,0,0,0,0,
    13095,12488,12531,0,0,0,0,  13096,12490,12494,0,0,0,0,  13097,12494,12483,12488,0,0,0,
    13098,12495,12452,12484,0,0,0,  13099,12497,12540,12475,12531,12488,0,
    13100,12497,12540,12484,0,0,0,  13101,12496,12540,12524,12523,0,0,
    13102,12500,12450,12473,12488,12523,0,  13103,12500,12463,12523,0,0,0,
    13104,12500,12467,0,0,0,0,  13105,12499,12523,0,0,0,0,
    13106,12501,12449,12521,12483,12489,0,  13107,12501,12451,12540,12488,0,0,
    13108,12502,12483,12471,12455,12523,0,  13109,12501,12521,12531,0,0,0,
    13110,12504,12463,12479,12540,12523,0,  13111,12506,12477,0,0,0,0,
    13112,12506,12491,12498,0,0,0,  13113,12504,12523,12484,0,0,0,
    13114,12506,12531,12473,0,0,0,  13115,12506,12540,12472,0,0,0,
    13116,12505,12540,12479,0,0,0,  13117,12509,12452,12531,12488,0,0,
    13118,12508,12523,12488,0,0,0,  13119,12507,12531,0,0,0,0,  13120,12509,12531,12489,0,0,0,
    13121,12507,12540,12523,0,0,0,  13122,12507,12540,12531,0,0,0,
    13123,12510,12452,12463,12525,0,0,  13124,12510,12452,12523,0,0,0,
    13125,12510,12483,12495,0,0,0,  13126,12510,12523,12463,0,0,0,
    13127,12510,12531,12471,12519,12531,0,  13128,12511,12463,12525,12531,0,0,
    13129,12511,12522,0,0,0,0,  13130,12511,12522,12496,12540,12523,0,
    13131,12513,12460,0,0,0,0,  13132,12513,12460,12488,12531,0,0,
    13133,12513,12540,12488,12523,0,0,  13134,12516,12540,12489,0,0,0,
    13135,12516,12540,12523,0,0,0,  13136,12518,12450,12531,0,0,0,
    13137,12522,12483,12488,12523,0,0,  13138,12522,12521,0,0,0,0,
    13139,12523,12500,12540,0,0,0,  13140,12523,12540,12502,12523,0,0,
    13141,12524,12512,0,0,0,0,  13142,12524,12531,12488,12466,12531,0,
    13143,12527,12483,12488,0,0,0,  13144,48,28857,0,0,0,0,  13145,49,28857,0,0,0,0,
    13146,50,28857,0,0,0,0,  13147,51,28857,0,0,0,0,  13148,52,28857,0,0,0,0,
    13149,53,28857,0,0,0,0,  13150,54,28857,0,0,0,0,  13151,55,28857,0,0,0,0,
    13152,56,28857,0,0,0,0,  13153,57,28857,0,0,0,0,  13154,49,48,28857,0,0,0,
    13155,49,49,28857,0,0,0,  13156,49,50,28857,0,0,0,  13157,49,51,28857,0,0,0,
    13158,49,52,28857,0,0,0,  13159,49,53,28857,0,0,0,  13160,49,54,28857,0,0,0,
    13161,49,55,28857,0,0,0,  13162,49,56,28857,0,0,0,  13163,49,57,28857,0,0,0,
    13164,50,48,28857,0,0,0,  13165,50,49,28857,0,0,0,  13166,50,50,28857,0,0,0,
    13167,50,51,28857,0,0,0,  13168,50,52,28857,0,0,0,  13169,104,112,97,0,0,0,
    13170,100,97,0,0,0,0,  13171,97,117,0,0,0,0,  13172,98,97,114,0,0,0,  13173,111,118,0,0,0,0,
    13174,112,99,0,0,0,0,  13175,100,109,0,0,0,0,  13176,100,109,50,0,0,0,
    13177,100,109,51,0,0,0,  13178,105,117,0,0,0,0,  13179,24179,25104,0,0,0,0,
    13180,26157,21644,0,0,0,0,  13181,22823,27491,0,0,0,0,  13182,26126,27835,0,0,0,0,
    13183,26666,24335,20250,31038,0,0,  13184,112,97,0,0,0,0,  13185,110,97,0,0,0,0,
    13186,956,97,0,0,0,0,  13187,109,97,0,0,0,0,  13188,107,97,0,0,0,0,  13189,107,98,0,0,0,0,
    13190,109,98,0,0,0,0,  13191,103,98,0,0,0,0,  13192,99,97,108,0,0,0,
    13193,107,99,97,108,0,0,  13194,112,102,0,0,0,0,  13195,110,102,0,0,0,0,
    13196,956,102,0,0,0,0,  13197,956,103,0,0,0,0,  13198,109,103,0,0,0,0,
    13199,107,103,0,0,0,0,  13200,104,122,0,0,0,0,  13201,107,104,122,0,0,0,
    13202,109,104,122,0,0,0,  13203,103,104,122,0,0,0,  13204,116,104,122,0,0,0,
    13205,956,108,0,0,0,0,  13206,109,108,0,0,0,0,  13207,100,108,0,0,0,0,
    13208,107,108,0,0,0,0,  13209,102,109,0,0,0,0,  13210,110,109,0,0,0,0,
    13211,956,109,0,0,0,0,  13212,109,109,0,0,0,0,  13213,99,109,0,0,0,0,
    13214,107,109,0,0,0,0,  13215,109,109,50,0,0,0,  13216,99,109,50,0,0,0,
    13217,109,50,0,0,0,0,  13218,107,109,50,0,0,0,  13219,109,109,51,0,0,0,
    13220,99,109,51,0,0,0,  13221,109,51,0,0,0,0,  13222,107,109,51,0,0,0,
    13223,109,8725,115,0,0,0,  13224,109,8725,115,50,0,0,  13225,112,97,0,0,0,0,
    13226,107,112,97,0,0,0,  13227,109,112,97,0,0,0,  13228,103,112,97,0,0,0,
    13229,114,97,100,0,0,0,  13230,114,97,100,8725,115,0,  13231,114,97,100,8725,115,50,
    13232,112,115,0,0,0,0,  13233,110,115,0,0,0,0,  13234,956,115,0,0,0,0,
    13235,109,115,0,0,0,0,  13236,112,118,0,0,0,0,  13237,110,118,0,0,0,0,
    13238,956,118,0,0,0,0,  13239,109,118,0,0,0,0,  13240,107,118,0,0,0,0,
    13241,109,118,0,0,0,0,  13242,112,119,0,0,0,0,  13243,110,119,0,0,0,0,
    13244,956,119,0,0,0,0,  13245,109,119,0,0,0,0,  13246,107,119,0,0,0,0,
    13247,109,119,0,0,0,0,  13248,107,969,0,0,0,0,  13249,109,969,0,0,0,0,
    13251,98,113,0,0,0,0,  13252,99,99,0,0,0,0,  13253,99,100,0,0,0,0,
    13254,99,8725,107,103,0,0,  13256,100,98,0,0,0,0,  13257,103,121,0,0,0,0,
    13258,104,97,0,0,0,0,  13259,104,112,0,0,0,0,  13260,105,110,0,0,0,0,
    13261,107,107,0,0,0,0,  13262,107,109,0,0,0,0,  13263,107,116,0,0,0,0,
    13264,108,109,0,0,0,0,  13265,108,110,0,0,0,0,  13266,108,111,103,0,0,0,
    13267,108,120,0,0,0,0,  13268,109,98,0,0,0,0,  13269,109,105,108,0,0,0,
    13270,109,111,108,0,0,0,  13271,112,104,0,0,0,0,  13273,112,112,109,0,0,0,
    13274,112,114,0,0,0,0,  13275,115,114,0,0,0,0,  13276,115,118,0,0,0,0,
    13277,119,98,0,0,0,0,  13278,118,8725,109,0,0,0,  13279,97,8725,109,0,0,0,
    13280,49,26085,0,0,0,0,  13281,50,26085,0,0,0,0,  13282,51,26085,0,0,0,0,
    13283,52,26085,0,0,0,0,  13284,53,26085,0,0,0,0,  13285,54,26085,0,0,0,0,
    13286,55,26085,0,0,0,0,  13287,56,26085,0,0,0,0,  13288,57,26085,0,0,0,0,
    13289,49,48,26085,0,0,0,  13290,49,49,26085,0,0,0,  13291,49,50,26085,0,0,0,
    13292,49,51,26085,0,0,0,  13293,49,52,26085,0,0,0,  13294,49,53,26085,0,0,0,
    13295,49,54,26085,0,0,0,  13296,49,55,26085,0,0,0,  13297,49,56,26085,0,0,0,
    13298,49,57,26085,0,0,0,  13299,50,48,26085,0,0,0,  13300,50,49,26085,0,0,0,
    13301,50,50,26085,0,0,0,  13302,50,51,26085,0,0,0,  13303,50,52,26085,0,0,0,
    13304,50,53,26085,0,0,0,  13305,50,54,26085,0,0,0,  13306,50,55,26085,0,0,0,
    13307,50,56,26085,0,0,0,  13308,50,57,26085,0,0,0,  13309,51,48,26085,0,0,0,
    13310,51,49,26085,0,0,0,  13311,103,97,108,0,0,0,  64256,102,102,0,0,0,0,
    64257,102,105,0,0,0,0,  64258,102,108,0,0,0,0,  64259,102,102,105,0,0,0,
    64260,102,102,108,0,0,0,  64261,115,116,0,0,0,0,  64262,115,116,0,0,0,0,
    64275,1396,1398,0,0,0,0,  64276,1396,1381,0,0,0,0,  64277,1396,1387,0,0,0,0,
    64278,1406,1398,0,0,0,0,  64279,1396,1389,0,0,0,0,  64285,1497,1460,0,0,0,0,
    64287,1522,1463,0,0,0,0,  64298,1513,1473,0,0,0,0,  64299,1513,1474,0,0,0,0,
    64300,1513,1468,1473,0,0,0,  64301,1513,1468,1474,0,0,0,  64302,1488,1463,0,0,0,0,
    64303,1488,1464,0,0,0,0,  64304,1488,1468,0,0,0,0,  64305,1489,1468,0,0,0,0,
    64306,1490,1468,0,0,0,0,  64307,1491,1468,0,0,0,0,  64308,1492,1468,0,0,0,0,
    64309,1493,1468,0,0,0,0,  64310,1494,1468,0,0,0,0,  64312,1496,1468,0,0,0,0,
    64313,1497,1468,0,0,0,0,  64314,1498,1468,0,0,0,0,  64315,1499,1468,0,0,0,0,
    64316,1500,1468,0,0,0,0,  64318,1502,1468,0,0,0,0,  64320,1504,1468,0,0,0,0,
    64321,1505,1468,0,0,0,0,  64323,1507,1468,0,0,0,0,  64324,1508,1468,0,0,0,0,
    64326,1510,1468,0,0,0,0,  64327,1511,1468,0,0,0,0,  64328,1512,1468,0,0,0,0,
    64329,1513,1468,0,0,0,0,  64330,1514,1468,0,0,0,0,  64331,1493,1465,0,0,0,0,
    64332,1489,1471,0,0,0,0,  64333,1499,1471,0,0,0,0,  64334,1508,1471,0,0,0,0,
    64335,1488,1500,0,0,0,0,  64477,1735,1652,0,0,0,0,  64490,1574,1575,0,0,0,0,
    64491,1574,1575,0,0,0,0,  64492,1574,1749,0,0,0,0,  64493,1574,1749,0,0,0,0,
    64494,1574,1608,0,0,0,0,  64495,1574,1608,0,0,0,0,  64496,1574,1735,0,0,0,0,
    64497,1574,1735,0,0,0,0,  64498,1574,1734,0,0,0,0,  64499,1574,1734,0,0,0,0,
    64500,1574,1736,0,0,0,0,  64501,1574,1736,0,0,0,0,  64502,1574,1744,0,0,0,0,
    64503,1574,1744,0,0,0,0,  64504,1574,1744,0,0,0,0,  64505,1574,1609,0,0,0,0,
    64506,1574,1609,0,0,0,0,  64507,1574,1609,0,0,0,0,  64512,1574,1580,0,0,0,0,
    64513,1574,1581,0,0,0,0,  64514,1574,1605,0,0,0,0,  64515,1574,1609,0,0,0,0,
    64516,1574,1610,0,0,0,0,  64517,1576,1580,0,0,0,0,  64518,1576,1581,0,0,0,0,
    64519,1576,1582,0,0,0,0,  64520,1576,1605,0,0,0,0,  64521,1576,1609,0,0,0,0,
    64522,1576,1610,0,0,0,0,  64523,1578,1580,0,0,0,0,  64524,1578,1581,0,0,0,0,
    64525,1578,1582,0,0,0,0,  64526,1578,1605,0,0,0,0,  64527,1578,1609,0,0,0,0,
    64528,1578,1610,0,0,0,0,  64529,1579,1580,0,0,0,0,  64530,1579,1605,0,0,0,0,
    64531,1579,1609,0,0,0,0,  64532,1579,1610,0,0,0,0,  64533,1580,1581,0,0,0,0,
    64534,1580,1605,0,0,0,0,  64535,1581,1580,0,0,0,0,  64536,1581,1605,0,0,0,0,
    64537,1582,1580,0,0,0,0,  64538,1582,1581,0,0,0,0,  64539,1582,1605,0,0,0,0,
    64540,1587,1580,0,0,0,0,  64541,1587,1581,0,0,0,0,  64542,1587,1582,0,0,0,0,
    64543,1587,1605,0,0,0,0,  64544,1589,1581,0,0,0,0,  64545,1589,1605,0,0,0,0,
    64546,1590,1580,0,0,0,0,  64547,1590,1581,0,0,0,0,  64548,1590,1582,0,0,0,0,
    64549,1590,1605,0,0,0,0,  64550,1591,1581,0,0,0,0,  64551,1591,1605,0,0,0,0,
    64552,1592,1605,0,0,0,0,  64553,1593,1580,0,0,0,0,  64554,1593,1605,0,0,0,0,
    64555,1594,1580,0,0,0,0,  64556,1594,1605,0,0,0,0,  64557,1601,1580,0,0,0,0,
    64558,1601,1581,0,0,0,0,  64559,1601,1582,0,0,0,0,  64560,1601,1605,0,0,0,0,
    64561,1601,1609,0,0,0,0,  64562,1601,1610,0,0,0,0,  64563,1602,1581,0,0,0,0,
    64564,1602,1605,0,0,0,0,  64565,1602,1609,0,0,0,0,  64566,1602,1610,0,0,0,0,
    64567,1603,1575,0,0,0,0,  64568,1603,1580,0,0,0,0,  64569,1603,1581,0,0,0,0,
    64570,1603,1582,0,0,0,0,  64571,1603,1604,0,0,0,0,  64572,1603,1605,0,0,0,0,
    64573,1603,1609,0,0,0,0,  64574,1603,1610,0,0,0,0,  64575,1604,1580,0,0,0,0,
    64576,1604,1581,0,0,0,0,  64577,1604,1582,0,0,0,0,  64578,1604,1605,0,0,0,0,
    64579,1604,1609,0,0,0,0,  64580,1604,1610,0,0,0,0,  64581,1605,1580,0,0,0,0,
    64582,1605,1581,0,0,0,0,  64583,1605,1582,0,0,0,0,  64584,1605,1605,0,0,0,0,
    64585,1605,1609,0,0,0,0,  64586,1605,1610,0,0,0,0,  64587,1606,1580,0,0,0,0,
    64588,1606,1581,0,0,0,0,  64589,1606,1582,0,0,0,0,  64590,1606,1605,0,0,0,0,
    64591,1606,1609,0,0,0,0,  64592,1606,1610,0,0,0,0,  64593,1607,1580,0,0,0,0,
    64594,1607,1605,0,0,0,0,  64595,1607,1609,0,0,0,0,  64596,1607,1610,0,0,0,0,
    64597,1610,1580,0,0,0,0,  64598,1610,1581,0,0,0,0,  64599,1610,1582,0,0,0,0,
    64600,1610,1605,0,0,0,0,  64601,1610,1609,0,0,0,0,  64602,1610,1610,0,0,0,0,
    64603,1584,1648,0,0,0,0,  64604,1585,1648,0,0,0,0,  64605,1609,1648,0,0,0,0,
    64606,32,1612,1617,0,0,0,  64607,32,1613,1617,0,0,0,  64608,32,1614,1617,0,0,0,
    64609,32,1615,1617,0,0,0,  64610,32,1616,1617,0,0,0,  64611,32,1617,1648,0,0,0,
    64612,1574,1585,0,0,0,0,  64613,1574,1586,0,0,0,0,  64614,1574,1605,0,0,0,0,
    64615,1574,1606,0,0,0,0,  64616,1574,1609,0,0,0,0,  64617,1574,1610,0,0,0,0,
    64618,1576,1585,0,0,0,0,  64619,1576,1586,0,0,0,0,  64620,1576,1605,0,0,0,0,
    64621,1576,1606,0,0,0,0,  64622,1576,1609,0,0,0,0,  64623,1576,1610,0,0,0,0,
    64624,1578,1585,0,0,0,0,  64625,1578,1586,0,0,0,0,  64626,1578,1605,0,0,0,0,
    64627,1578,1606,0,0,0,0,  64628,1578,1609,0,0,0,0,  64629,1578,1610,0,0,0,0,
    64630,1579,1585,0,0,0,0,  64631,1579,1586,0,0,0,0,  64632,1579,1605,0,0,0,0,
    64633,1579,1606,0,0,0,0,  64634,1579,1609,0,0,0,0,  64635,1579,1610,0,0,0,0,
    64636,1601,1609,0,0,0,0,  64637,1601,1610,0,0,0,0,  64638,1602,1609,0,0,0,0,
    64639,1602,1610,0,0,0,0,  64640,1603,1575,0,0,0,0,  64641,1603,1604,0,0,0,0,
    64642,1603,1605,0,0,0,0,  64643,1603,1609,0,0,0,0,  64644,1603,1610,0,0,0,0,
    64645,1604,1605,0,0,0,0,  64646,1604,1609,0,0,0,0,  64647,1604,1610,0,0,0,0,
    64648,1605,1575,0,0,0,0,  64649,1605,1605,0,0,0,0,  64650,1606,1585,0,0,0,0,
    64651,1606,1586,0,0,0,0,  64652,1606,1605,0,0,0,0,  64653,1606,1606,0,0,0,0,
    64654,1606,1609,0,0,0,0,  64655,1606,1610,0,0,0,0,  64656,1609,1648,0,0,0,0,
    64657,1610,1585,0,0,0,0,  64658,1610,1586,0,0,0,0,  64659,1610,1605,0,0,0,0,
    64660,1610,1606,0,0,0,0,  64661,1610,1609,0,0,0,0,  64662,1610,1610,0,0,0,0,
    64663,1574,1580,0,0,0,0,  64664,1574,1581,0,0,0,0,  64665,1574,1582,0,0,0,0,
    64666,1574,1605,0,0,0,0,  64667,1574,1607,0,0,0,0,  64668,1576,1580,0,0,0,0,
    64669,1576,1581,0,0,0,0,  64670,1576,1582,0,0,0,0,  64671,1576,1605,0,0,0,0,
    64672,1576,1607,0,0,0,0,  64673,1578,1580,0,0,0,0,  64674,1578,1581,0,0,0,0,
    64675,1578,1582,0,0,0,0,  64676,1578,1605,0,0,0,0,  64677,1578,1607,0,0,0,0,
    64678,1579,1605,0,0,0,0,  64679,1580,1581,0,0,0,0,  64680,1580,1605,0,0,0,0,
    64681,1581,1580,0,0,0,0,  64682,1581,1605,0,0,0,0,  64683,1582,1580,0,0,0,0,
    64684,1582,1605,0,0,0,0,  64685,1587,1580,0,0,0,0,  64686,1587,1581,0,0,0,0,
    64687,1587,1582,0,0,0,0,  64688,1587,1605,0,0,0,0,  64689,1589,1581,0,0,0,0,
    64690,1589,1582,0,0,0,0,  64691,1589,1605,0,0,0,0,  64692,1590,1580,0,0,0,0,
    64693,1590,1581,0,0,0,0,  64694,1590,1582,0,0,0,0,  64695,1590,1605,0,0,0,0,
    64696,1591,1581,0,0,0,0,  64697,1592,1605,0,0,0,0,  64698,1593,1580,0,0,0,0,
    64699,1593,1605,0,0,0,0,  64700,1594,1580,0,0,0,0,  64701,1594,1605,0,0,0,0,
    64702,1601,1580,0,0,0,0,  64703,1601,1581,0,0,0,0,  64704,1601,1582,0,0,0,0,
    64705,1601,1605,0,0,0,0,  64706,1602,1581,0,0,0,0,  64707,1602,1605,0,0,0,0,
    64708,1603,1580,0,0,0,0,  64709,1603,1581,0,0,0,0,  64710,1603,1582,0,0,0,0,
    64711,1603,1604,0,0,0,0,  64712,1603,1605,0,0,0,0,  64713,1604,1580,0,0,0,0,
    64714,1604,1581,0,0,0,0,  64715,1604,1582,0,0,0,0,  64716,1604,1605,0,0,0,0,
    64717,1604,1607,0,0,0,0,  64718,1605,1580,0,0,0,0,  64719,1605,1581,0,0,0,0,
    64720,1605,1582,0,0,0,0,  64721,1605,1605,0,0,0,0,  64722,1606,1580,0,0,0,0,
    64723,1606,1581,0,0,0,0,  64724,1606,1582,0,0,0,0,  64725,1606,1605,0,0,0,0,
    64726,1606,1607,0,0,0,0,  64727,1607,1580,0,0,0,0,  64728,1607,1605,0,0,0,0,
    64729,1607,1648,0,0,0,0,  64730,1610,1580,0,0,0,0,  64731,1610,1581,0,0,0,0,
    64732,1610,1582,0,0,0,0,  64733,1610,1605,0,0,0,0,  64734,1610,1607,0,0,0,0,
    64735,1574,1605,0,0,0,0,  64736,1574,1607,0,0,0,0,  64737,1576,1605,0,0,0,0,
    64738,1576,1607,0,0,0,0,  64739,1578,1605,0,0,0,0,  64740,1578,1607,0,0,0,0,
    64741,1579,1605,0,0,0,0,  64742,1579,1607,0,0,0,0,  64743,1587,1605,0,0,0,0,
    64744,1587,1607,0,0,0,0,  64745,1588,1605,0,0,0,0,  64746,1588,1607,0,0,0,0,
    64747,1603,1604,0,0,0,0,  64748,1603,1605,0,0,0,0,  64749,1604,1605,0,0,0,0,
    64750,1606,1605,0,0,0,0,  64751,1606,1607,0,0,0,0,  64752,1610,1605,0,0,0,0,
    64753,1610,1607,0,0,0,0,  64754,1600,1614,1617,0,0,0,  64755,1600,1615,1617,0,0,0,
    64756,1600,1616,1617,0,0,0,  64757,1591,1609,0,0,0,0,  64758,1591,1610,0,0,0,0,
    64759,1593,1609,0,0,0,0,  64760,1593,1610,0,0,0,0,  64761,1594,1609,0,0,0,0,
    64762,1594,1610,0,0,0,0,  64763,1587,1609,0,0,0,0,  64764,1587,1610,0,0,0,0,
    64765,1588,1609,0,0,0,0,  64766,1588,1610,0,0,0,0,  64767,1581,1609,0,0,0,0,
    64768,1581,1610,0,0,0,0,  64769,1580,1609,0,0,0,0,  64770,1580,1610,0,0,0,0,
    64771,1582,1609,0,0,0,0,  64772,1582,1610,0,0,0,0,  64773,1589,1609,0,0,0,0,
    64774,1589,1610,0,0,0,0,  64775,1590,1609,0,0,0,0,  64776,1590,1610,0,0,0,0,
    64777,1588,1580,0,0,0,0,  64778,1588,1581,0,0,0,0,  64779,1588,1582,0,0,0,0,
    64780,1588,1605,0,0,0,0,  64781,1588,1585,0,0,0,0,  64782,1587,1585,0,0,0,0,
    64783,1589,1585,0,0,0,0,  64784,1590,1585,0,0,0,0,  64785,1591,1609,0,0,0,0,
    64786,1591,1610,0,0,0,0,  64787,1593,1609,0,0,0,0,  64788,1593,1610,0,0,0,0,
    64789,1594,1609,0,0,0,0,  64790,1594,1610,0,0,0,0,  64791,1587,1609,0,0,0,0,
    64792,1587,1610,0,0,0,0,  64793,1588,1609,0,0,0,0,  64794,1588,1610,0,0,0,0,
    64795,1581,1609,0,0,0,0,  64796,1581,1610,0,0,0,0,  64797,1580,1609,0,0,0,0,
    64798,1580,1610,0,0,0,0,  64799,1582,1609,0,0,0,0,  64800,1582,1610,0,0,0,0,
    64801,1589,1609,0,0,0,0,  64802,1589,1610,0,0,0,0,  64803,1590,1609,0,0,0,0,
    64804,1590,1610,0,0,0,0,  64805,1588,1580,0,0,0,0,  64806,1588,1581,0,0,0,0,
    64807,1588,1582,0,0,0,0,  64808,1588,1605,0,0,0,0,  64809,1588,1585,0,0,0,0,
    64810,1587,1585,0,0,0,0,  64811,1589,1585,0,0,0,0,  64812,1590,1585,0,0,0,0,
    64813,1588,1580,0,0,0,0,  64814,1588,1581,0,0,0,0,  64815,1588,1582,0,0,0,0,
    64816,1588,1605,0,0,0,0,  64817,1587,1607,0,0,0,0,  64818,1588,1607,0,0,0,0,
    64819,1591,1605,0,0,0,0,  64820,1587,1580,0,0,0,0,  64821,1587,1581,0,0,0,0,
    64822,1587,1582,0,0,0,0,  64823,1588,1580,0,0,0,0,  64824,1588,1581,0,0,0,0,
    64825,1588,1582,0,0,0,0,  64826,1591,1605,0,0,0,0,  64827,1592,1605,0,0,0,0,
    64828,1575,1611,0,0,0,0,  64829,1575,1611,0,0,0,0,  64848,1578,1580,1605,0,0,0,
    64849,1578,1581,1580,0,0,0,  64850,1578,1581,1580,0,0,0,  64851,1578,1581,1605,0,0,0,
    64852,1578,1582,1605,0,0,0,  64853,1578,1605,1580,0,0,0,  64854,1578,1605,1581,0,0,0,
    64855,1578,1605,1582,0,0,0,  64856,1580,1605,1581,0,0,0,  64857,1580,1605,1581,0,0,0,
    64858,1581,1605,1610,0,0,0,  64859,1581,1605,1609,0,0,0,  64860,1587,1581,1580,0,0,0,
    64861,1587,1580,1581,0,0,0,  64862,1587,1580,1609,0,0,0,  64863,1587,1605,1581,0,0,0,
    64864,1587,1605,1581,0,0,0,  64865,1587,1605,1580,0,0,0,  64866,1587,1605,1605,0,0,0,
    64867,1587,1605,1605,0,0,0,  64868,1589,1581,1581,0,0,0,  64869,1589,1581,1581,0,0,0,
    64870,1589,1605,1605,0,0,0,  64871,1588,1581,1605,0,0,0,  64872,1588,1581,1605,0,0,0,
    64873,1588,1580,1610,0,0,0,  64874,1588,1605,1582,0,0,0,  64875,1588,1605,1582,0,0,0,
    64876,1588,1605,1605,0,0,0,  64877,1588,1605,1605,0,0,0,  64878,1590,1581,1609,0,0,0,
    64879,1590,1582,1605,0,0,0,  64880,1590,1582,1605,0,0,0,  64881,1591,1605,1581,0,0,0,
    64882,1591,1605,1581,0,0,0,  64883,1591,1605,1605,0,0,0,  64884,1591,1605,1610,0,0,0,
    64885,1593,1580,1605,0,0,0,  64886,1593,1605,1605,0,0,0,  64887,1593,1605,1605,0,0,0,
    64888,1593,1605,1609,0,0,0,  64889,1594,1605,1605,0,0,0,  64890,1594,1605,1610,0,0,0,
    64891,1594,1605,1609,0,0,0,  64892,1601,1582,1605,0,0,0,  64893,1601,1582,1605,0,0,0,
    64894,1602,1605,1581,0,0,0,  64895,1602,1605,1605,0,0,0,  64896,1604,1581,1605,0,0,0,
    64897,1604,1581,1610,0,0,0,  64898,1604,1581,1609,0,0,0,  64899,1604,1580,1580,0,0,0,
    64900,1604,1580,1580,0,0,0,  64901,1604,1582,1605,0,0,0,  64902,1604,1582,1605,0,0,0,
    64903,1604,1605,1581,0,0,0,  64904,1604,1605,1581,0,0,0,  64905,1605,1581,1580,0,0,0,
    64906,1605,1581,1605,0,0,0,  64907,1605,1581,1610,0,0,0,  64908,1605,1580,1581,0,0,0,
    64909,1605,1580,1605,0,0,0,  64910,1605,1582,1580,0,0,0,  64911,1605,1582,1605,0,0,0,
    64914,1605,1580,1582,0,0,0,  64915,1607,1605,1580,0,0,0,  64916,1607,1605,1605,0,0,0,
    64917,1606,1581,1605,0,0,0,  64918,1606,1581,1609,0,0,0,  64919,1606,1580,1605,0,0,0,
    64920,1606,1580,1605,0,0,0,  64921,1606,1580,1609,0,0,0,  64922,1606,1605,1610,0,0,0,
    64923,1606,1605,1609,0,0,0,  64924,1610,1605,1605,0,0,0,  64925,1610,1605,1605,0,0,0,
    64926,1576,1582,1610,0,0,0,  64927,1578,1580,1610,0,0,0,  64928,1578,1580,1609,0,0,0,
    64929,1578,1582,1610,0,0,0,  64930,1578,1582,1609,0,0,0,  64931,1578,1605,1610,0,0,0,
    64932,1578,1605,1609,0,0,0,  64933,1580,1605,1610,0,0,0,  64934,1580,1581,1609,0,0,0,
    64935,1580,1605,1609,0,0,0,  64936,1587,1582,1609,0,0,0,  64937,1589,1581,1610,0,0,0,
    64938,1588,1581,1610,0,0,0,  64939,1590,1581,1610,0,0,0,  64940,1604,1580,1610,0,0,0,
    64941,1604,1605,1610,0,0,0,  64942,1610,1581,1610,0,0,0,  64943,1610,1580,1610,0,0,0,
    64944,1610,1605,1610,0,0,0,  64945,1605,1605,1610,0,0,0,  64946,1602,1605,1610,0,0,0,
    64947,1606,1581,1610,0,0,0,  64948,1602,1605,1581,0,0,0,  64949,1604,1581,1605,0,0,0,
    64950,1593,1605,1610,0,0,0,  64951,1603,1605,1610,0,0,0,  64952,1606,1580,1581,0,0,0,
    64953,1605,1582,1610,0,0,0,  64954,1604,1580,1605,0,0,0,  64955,1603,1605,1605,0,0,0,
    64956,1604,1580,1605,0,0,0,  64957,1606,1580,1581,0,0,0,  64958,1580,1581,1610,0,0,0,
    64959,1581,1580,1610,0,0,0,  64960,1605,1580,1610,0,0,0,  64961,1601,1605,1610,0,0,0,
    64962,1576,1581,1610,0,0,0,  64963,1603,1605,1605,0,0,0,  64964,1593,1580,1605,0,0,0,
    64965,1589,1605,1605,0,0,0,  64966,1587,1582,1610,0,0,0,  64967,1606,1580,1610,0,0,0,
    65008,1589,1604,1746,0,0,0,  65009,1602,1604,1746,0,0,0,  65010,1575,1604,1604,1607,0,0,
    65011,1575,1603,1576,1585,0,0,  65012,1605,1581,1605,1583,0,0,
    65013,1589,1604,1593,1605,0,0,  65014,1585,1587,1608,1604,0,0,
    65015,1593,1604,1610,1607,0,0,  65016,1608,1587,1604,1605,0,0,  65017,1589,1604,1609,0,0,0,
    65020,1585,1740,1575,1604,0,0,  65097,32,773,0,0,0,0,  65098,32,773,0,0,0,0,
    65099,32,773,0,0,0,0,  65100,32,773,0,0,0,0,  65136,32,1611,0,0,0,0,
    65137,1600,1611,0,0,0,0,  65138,32,1612,0,0,0,0,  65140,32,1613,0,0,0,0,
    65142,32,1614,0,0,0,0,  65143,1600,1614,0,0,0,0,  65144,32,1615,0,0,0,0,
    65145,1600,1615,0,0,0,0,  65146,32,1616,0,0,0,0,  65147,1600,1616,0,0,0,0,
    65148,32,1617,0,0,0,0,  65149,1600,1617,0,0,0,0,  65150,32,1618,0,0,0,0,
    65151,1600,1618,0,0,0,0,  65269,1604,1570,0,0,0,0,  65270,1604,1570,0,0,0,0,
    65271,1604,1571,0,0,0,0,  65272,1604,1571,0,0,0,0,  65273,1604,1573,0,0,0,0,
    65274,1604,1573,0,0,0,0,  65275,1604,1575,0,0,0,0,  65276,1604,1575,0,0,0,0,
    65507,32,772,0,0,0,0,  119134,119127,119141,0,0,0,0,  119135,119128,119141,0,0,0,0,
    119136,119128,119141,119150,0,0,0,  119137,119128,119141,119151,0,0,0,
    119138,119128,119141,119152,0,0,0,  119139,119128,119141,119153,0,0,0,
    119140,119128,119141,119154,0,0,0,  119227,119225,119141,0,0,0,0,
    119228,119226,119141,0,0,0,0,  119229,119225,119141,119150,0,0,0,
    119230,119226,119141,119150,0,0,0,  119231,119225,119141,119151,0,0,0,
    119232,119226,119141,119151,0,0,0,  127233,48,44,0,0,0,0,  127234,49,44,0,0,0,0,
    127235,50,44,0,0,0,0,  127236,51,44,0,0,0,0,  127237,52,44,0,0,0,0,  127238,53,44,0,0,0,0,
    127239,54,44,0,0,0,0,  127240,55,44,0,0,0,0,  127241,56,44,0,0,0,0,  127242,57,44,0,0,0,0,
    127248,40,97,41,0,0,0,  127249,40,98,41,0,0,0,  127250,40,99,41,0,0,0,
    127251,40,100,41,0,0,0,  127252,40,101,41,0,0,0,  127253,40,102,41,0,0,0,
    127254,40,103,41,0,0,0,  127255,40,104,41,0,0,0,  127256,40,105,41,0,0,0,
    127257,40,106,41,0,0,0,  127258,40,107,41,0,0,0,  127259,40,108,41,0,0,0,
    127260,40,109,41,0,0,0,  127261,40,110,41,0,0,0,  127262,40,111,41,0,0,0,
    127263,40,112,41,0,0,0,  127264,40,113,41,0,0,0,  127265,40,114,41,0,0,0,
    127266,40,115,41,0,0,0,  127267,40,116,41,0,0,0,  127268,40,117,41,0,0,0,
    127269,40,118,41,0,0,0,  127270,40,119,41,0,0,0,  127271,40,120,41,0,0,0,
    127272,40,121,41,0,0,0,  127273,40,122,41,0,0,0,  127274,12308,115,12309,0,0,0,
    127277,99,100,0,0,0,0,  127278,119,122,0,0,0,0,  127306,104,118,0,0,0,0,
    127307,109,118,0,0,0,0,  127308,115,100,0,0,0,0,  127309,115,115,0,0,0,0,
    127310,112,112,118,0,0,0,  127311,119,99,0,0,0,0,  127338,109,99,0,0,0,0,
    127339,109,100,0,0,0,0,  127340,109,114,0,0,0,0,  127376,100,106,0,0,0,0,
    127488,12411,12363,0,0,0,0,  127489,12467,12467,0,0,0,0,  127552,12308,26412,12309,0,0,0,
    127553,12308,19977,12309,0,0,0,  127554,12308,20108,12309,0,0,0,
    127555,12308,23433,12309,0,0,0,  127556,12308,28857,12309,0,0,0,
    127557,12308,25171,12309,0,0,0,  127558,12308,30423,12309,0,0,0,
    127559,12308,21213,12309,0,0,0,  127560,12308,25943,12309,0,0,0 >>

\* the mapping of a code point that is not disallowed
IdnaMap(n) ==
  IF n < 128 THEN (IF n \in 65..90 THEN <<n + 32>> ELSE <<n>>)
  ELSE IF InRanges(IdnaIgnored, n) THEN <<>>
  ELSE IF n = 65018
  THEN <<1589, 1604, 1609, 32, 1575, 1604, 1604, 1607, 32,
         1593, 1604, 1610, 1607, 32, 1608, 1587, 1604, 1605>>
  ELSE IF n = 65019 THEN <<1580, 1604, 32, 1580, 1604, 1575, 1604, 1607>>
  ELSE LET many == Expansion(IdnaMapMany, 6, n)
       IN  IF many = <<>> THEN <<RunImage(IdnaMapRuns, n)>> ELSE many

(***************************************************************************)
(* Punycode (RFC 3492), in the implementation of the runtime               *)
(***************************************************************************)
\* the value of a digit, 36 for a code point that is no digit: the letters
\* are the lower-case ones
PunycodeValue(c) ==
  IF c \in 97..122 THEN c - 97
  ELSE IF c \in 48..57 THEN c - 22
  ELSE 36

Threshold(k, bias) == IF k <= bias THEN 1 ELSE IF k >= bias + 26 THEN 26 ELSE k - bias

RECURSIVE AdaptLoop(_, _)
AdaptLoop(delta, k) ==
  IF delta > 455 THEN AdaptLoop(delta \div 35, k + 36)
  ELSE k + ((36 * delta) \div (delta + 38))

\* bias adaptation
Adapt(delta, numpoints, first) ==
  LET d == IF first THEN delta \div 700 ELSE delta \div 2
  IN  AdaptLoop(d + (d \div numpoints), 0)

\* q as a generalised variable-length integer
RECURSIVE VarInt(_, _, _)
VarInt(q, k, bias) ==
  LET t == Threshold(k, bias)
      PunycodeDigit(d) == IF d < 26 THEN d + 97 ELSE d + 22
  IN  IF q < t THEN <<PunycodeDigit(q)>>
      ELSE <<PunycodeDigit(t + ((q - t) % (36 - t)))>>
           \o VarInt((q - t) \div (36 - t), k + 36, bias)

\* one pass over the input for the code point st.n, at the positions lo to hi:
\* a code point below it adds 1 to delta; at an occurrence of it delta is
\* written, the bias adapted and delta set back to 0.  st is the state of the
\* encoder: n, delta, bias, h (the code points written so far) and out; b is
\* the number of basic code points.  The positions are taken one half after
\* the other
RECURSIVE EncodePass(_, _, _, _, _)
EncodePass(input, lo, hi, st, b) ==
  IF lo > hi THEN st
  ELSE IF lo = hi
  THEN IF input[lo] < st.n THEN [st EXCEPT !.delta = st.delta + 1]
       ELSE IF input[lo] = st.n
       THEN [st EXCEPT !.delta = 0, !.bias = Adapt(st.delta, st.h + 1, st.h = b),
                       !.h = st.h + 1, !.out = st.out \o VarInt(st.delta, 36, st.bias)]
       ELSE st
  ELSE Only([half \in {EncodePass(input, lo, (lo + hi) \div 2, st, b)} |->
         EncodePass(input, ((lo + hi) \div 2) + 1, hi, half, b)])

\* count passes, the first for m, the least code point of the input that is not
\* below st.n: delta grows by the code points skipped, and after the pass for
\* m the next one starts from m + 1 with delta one more
RECURSIVE EncodeLoop(_, _, _, _)
EncodeLoop(input, count, st, b) ==
  IF count = 0 THEN st
  ELSE IF count = 1
  THEN Only([m \in {Least({ input[j] : j \in { i \in 1..Len(input) : input[i] >= st.n } })} |->
       Only([pass \in {EncodePass(input, 1, Len(input),
                                  [st EXCEPT !.n = m,
                                             !.delta = st.delta + (m - st.n) * (st.h + 1)],
                                  b)} |->
         [pass EXCEPT !.n = m + 1, !.delta = pass.delta + 1]])])
  ELSE Only([half \in {EncodeLoop(input, count \div 2, st, b)} |->
         EncodeLoop(input, count - (count \div 2), half, b)])

\* the encoder: the basic code points, "-" when there is one, and one pass for
\* every other code point of the input, in the order of the code points
PunycodeEncode(input) ==
  Only([basic \in {SelectSeq(input, LAMBDA c : c < 128)} |->
    EncodeLoop(input, Cardinality({ input[i] : i \in 1..Len(input) } \ (0..127)),
               [n |-> 128, delta |-> 0, bias |-> 72, h |-> Len(basic),
                out |-> basic \o (IF Len(basic) > 0 THEN <<45>> ELSE <<>>)],
               Len(basic)).out])

PunycodeFailure == [failure |-> TRUE, value |-> <<>>]

\* the digits of the input at the positions lo to hi, read in order.  st is the
\* state of the decoder: n, i, bias and out, and for the generalised
\* variable-length integer being read its weight w, its k and the value from of
\* i before it (k is 36 between two integers).  An integer ends at a digit below
\* its threshold: the code point n + i \div (Len(out) + 1) is inserted into out
\* at i % (Len(out) + 1).  The positions are taken one half after the other
RECURSIVE DecodeLoop(_, _, _, _)
DecodeLoop(input, lo, hi, st) ==
  IF lo > hi \/ st.failure THEN st
  ELSE IF lo = hi
  THEN LET digit == PunycodeValue(input[lo])
           t     == Threshold(st.k, st.bias)
           i     == st.i + digit * st.w
           size  == Len(st.out) + 1
           n     == st.n + (i \div size)
           at    == i % size
       IN  IF digit >= 36 \/ digit > (2147483647 - st.i) \div st.w
           THEN [st EXCEPT !.failure = TRUE]
           ELSE IF digit < t
           THEN IF n > 1114111 THEN [st EXCEPT !.failure = TRUE]
                ELSE [failure |-> FALSE, n |-> n, i |-> at + 1, from |-> at + 1,
                      bias |-> Adapt(i - st.from, size, st.from = 0),
                      out |-> SubSeq(st.out, 1, at) \o <<n>> \o From(st.out, at + 1),
                      w |-> 1, k |-> 36]
           ELSE IF st.w > 2147483647 \div (36 - t) THEN [st EXCEPT !.failure = TRUE]
           ELSE [st EXCEPT !.i = i, !.w = st.w * (36 - t), !.k = st.k + 36]
  ELSE Only([half \in {DecodeLoop(input, lo, (lo + hi) \div 2, st)} |->
         DecodeLoop(input, ((lo + hi) \div 2) + 1, hi, half)])

\* the decoder: the basic code points are those before the last "-", and the
\* digits those after it (all of the input when it has no "-"); a code point
\* above U+10FFFF fails here, as it has no valid mapping
PunycodeDecode(input) ==
  LET hyphens == { j \in 1..Len(input) : input[j] = 45 }
      last    == IF hyphens = {} THEN 0 ELSE Greatest(hyphens)
  IN  Only([st \in {DecodeLoop(input, last + 1, Len(input),
                               [failure |-> FALSE, n |-> 128, i |-> 0, from |-> 0,
                                bias |-> 72, out |-> SubSeq(input, 1, last - 1),
                                w |-> 1, k |-> 36])} |->
        IF st.failure \/ st.k # 36 THEN PunycodeFailure
        ELSE [failure |-> FALSE, value |-> st.out]])

(***************************************************************************)
(* Domain to ASCII (ada::idna::to_ascii)                                   *)
(***************************************************************************)
\* does a label start with the ACE prefix xn--
HasAcePrefix(label) == Len(label) >= 4 /\ SubSeq(label, 1, 4) = <<120, 110, 45, 45>>

\* what the digits of a label with the ACE prefix are checked to decode to: a
\* non-empty label that the mapping and the normalisation leave as it is, and
\* that is valid; it may be a label of ASCII code points
ValidLabel(label) ==
  /\ Len(label) > 0
  /\ \A i \in 1..Len(label) :
       ~InRanges(IdnaDisallowed, label[i]) /\ IdnaMap(label[i]) = <<label[i]>>
  /\ NFC(label) = label
  /\ IsLabelValid(label)

\* a label of the mapped and normalised domain: the empty label passes; one
\* with the ACE prefix is ASCII and its digits decode to a valid label; another
\* ASCII label passes; a label outside ASCII is valid
LabelOK(label) ==
  IF HasAcePrefix(label)
  THEN /\ \A i \in 1..Len(label) : label[i] < 128
       /\ LET decoded == PunycodeDecode(From(label, 5))
          IN  ~decoded.failure /\ ValidLabel(decoded.value)
  ELSE (\E i \in 1..Len(label) : label[i] >= 128) => IsLabelValid(label)

\* a label that passed LabelOK, written in ASCII: an ASCII label is kept as it
\* is, the ACE prefix and the digits of one that was checked included
ToASCIILabel(label) ==
  IF \A j \in 1..Len(label) : label[j] < 128 THEN label
  ELSE <<120, 110, 45, 45>> \o PunycodeEncode(label)

\* the labels of a mapped and normalised domain to ASCII
ToASCII(labels) ==
  IF \E i \in 1..Len(labels) : ~LabelOK(labels[i]) THEN PunycodeFailure
  ELSE [failure |-> FALSE,
        value   |-> Join([i \in 1..Len(labels) |-> ToASCIILabel(labels[i])], <<46>>)]

\* domain to ASCII of the percent-decoded bytes of the host.  An ASCII domain
\* is put in lower case.  Another domain is decoded from UTF-8 (an ill-formed
\* sequence gives U+FFFD, which is disallowed), mapped and normalised to form
\* NFC; a disallowed code point is a failure.  The result is broken into
\* labels at the dots.
DomainToASCII(bytes) ==
  Only([domain \in {IF \A i \in 1..Len(bytes) : bytes[i] < 128 THEN AsciiLower(bytes)
                    ELSE UTF8Decode(bytes)} |->
    IF \E i \in 1..Len(domain) : domain[i] >= 128 /\ InRanges(IdnaDisallowed, domain[i])
    THEN PunycodeFailure
    ELSE ToASCII(Split(IF \A i \in 1..Len(domain) : domain[i] < 128 THEN domain
                       ELSE NFC(Flat([i \in 1..Len(domain) |-> IdnaMap(domain[i])], 18)),
                       46))])

(***************************************************************************)
(* The host parser and the states of the URL parser that lead to the host  *)
(***************************************************************************)
\* host parser, for a non-empty input: an IPv6 address in brackets; an opaque
\* host (the host of a URL that is not special), where code points above
\* U+007E and C0 controls are percent-encoded; or a domain: percent-decode,
\* domain to ASCII (an empty result is a failure), IPv4
ParseHost(input, isOpaque) ==
  IF input[1] = 91
  THEN IF input[Len(input)] # 93 THEN Failure
       ELSE LET r == IPv6Parse(SubSeq(input, 2, Len(input) - 1))
            IN  IF r.failure THEN Failure
                ELSE Host(<<91>> \o IPv6Serialise(r.address) \o <<93>>)
  ELSE IF isOpaque
  THEN IF \E i \in 1..Len(input) : input[i] \in ForbiddenHost THEN Failure
       ELSE Host(Flat([i \in 1..Len(input) |->
                         IF input[i] < 32 \/ input[i] > 126 THEN PercentEncoded(input[i])
                         ELSE <<input[i]>>], 12))
  ELSE Only([ascii \in
               {DomainToASCII(PercentDecode(Flat([i \in 1..Len(input) |-> UTF8(input[i])],
                                                 4)))} |->
         IF ascii.failure \/ Len(ascii.value) = 0 THEN Failure
         ELSE IF \E i \in 1..Len(ascii.value) : ascii.value[i] \in ForbiddenDomain
         THEN Failure
         ELSE IF EndsInNumber(ascii.value) THEN IPv4Host(ascii.value)
         ELSE Host(ascii.value)])

\* host state and port state: the port, after the first ":" outside brackets,
\* is a number of ASCII digits, at most 65535.  For a file URL (file host
\* state) there is no port, and the host localhost is the empty host.
HostAndPort(u, special, file) ==
  LET Inside(i)    == LET brackets == { j \in 1..(i - 1) : u[j] \in {91, 93} }
                      IN  brackets # {} /\ u[Greatest(brackets)] = 91
      PortOK(port) == LET digits == From(port, RunLength(port, 1, {48}) + 1)
                      IN  /\ \A i \in 1..Len(port) : IsDigit(port[i])
                          /\ Len(digits) <= 5
                          /\ Piece(digits, 1, Len(digits), 10, 0) <= 65535
      colons       == IF file THEN {} ELSE { i \in 1..Len(u) : u[i] = 58 /\ ~Inside(i) }
  IN  IF Len(u) = 0 THEN (IF special /\ ~file THEN Failure ELSE Host(<<>>))
      ELSE IF colons # {} /\ (Least(colons) = 1 \/ ~PortOK(From(u, Least(colons) + 1)))
      THEN Failure
      ELSE Only([parsed \in
                   {ParseHost(IF colons = {} THEN u ELSE SubSeq(u, 1, Least(colons) - 1),
                              ~special)} |->
             IF file /\ Chars(parsed.host) = <<"l","o","c","a","l","h","o","s","t">>
             THEN Host(<<>>)
             ELSE parsed])

\* authority state: the authority ends at "/", "?", "#" and, in a special URL,
\* "\"; the credentials are what precedes its last "@".  For a file URL (file
\* slash state) a Windows drive letter is no host, and "@" is part of the host.
Authority(rest, special, file) ==
  Only([segment \in {Before(rest, IF special THEN {47, 63, 35, 92} ELSE {47, 63, 35})} |->
    LET ats   == IF file THEN {} ELSE { i \in 1..Len(segment) : segment[i] = 64 }
        drive == /\ file /\ Len(segment) = 2
                 /\ IsAlpha(segment[1]) /\ segment[2] \in {58, 124}
    IN  IF ats # {} /\ Greatest(ats) = Len(segment) THEN Failure
        ELSE IF drive THEN Host(<<>>)
        ELSE HostAndPort(IF ats = {} THEN segment ELSE From(segment, Greatest(ats) + 1),
                         special, file)])

\* the basic URL parser on the cleaned input: scheme start and scheme states;
\* then, for a special scheme, special authority slashes (any run of "/" and
\* "\" is skipped), for file the file and file slash states (two slashes lead
\* to the host), and for another scheme path or authority (after "//")
BasicURLParser(link) ==
  Only([u \in {Cleaned(ToUSV(CodePoints(link)))} |->
  Only([k \in {SchemeEnd(u)} |->
    LET scheme  == Chars(AsciiLower(SubSeq(u, 1, k - 1)))
        rest    == From(u, k + 1)
        file    == scheme = <<"f","i","l","e">>
        special == file \/ scheme \in SpecialSchemes
        others  == { i \in 1..Len(rest) : rest[i] \notin {47, 92} }
        slashes == IF file THEN {47, 92} ELSE {47}
    IN  IF k = 0 THEN Failure
        ELSE IF ~(special /\ ~file)
                /\ ~(Len(rest) >= 2 /\ rest[1] \in slashes /\ rest[2] \in slashes)
        THEN Host(<<>>)
        ELSE Authority(IF ~special \/ file THEN From(rest, 3)
                       ELSE IF others = {} THEN <<>>
                       ELSE From(rest, Least(others)),
                       special, file)])])

\* the parses of the links of the raw items (url and contentUrl), computed once
ParsedLinks ==
  [link \in UNION { {item.url, item.contentUrl} : item \in FilterItems } \ {Undefined} |->
     BasicURLParser(link)]

\* new URL(link)
ParseURL(link) ==
  Only([known \in {ParsedLinks} |->
    IF link \in DOMAIN known THEN known[link] ELSE BasicURLParser(link)])

\* does new URL(link) throw
URLThrows(link) == link = Undefined \/ ParseURL(link).failure

\* new URL(link).hostname, for a link that parses
hostname(link) == Chars(ParseURL(link).host)

(***************************************************************************)
(* Configuration of the filter (Search.tsx lines 26-29)                    *)
(***************************************************************************)
resultsPerPage == 20

inappropriateKeywords ==
  { <<"k","e","y","w","o","r","d","1">>,
    <<"k","e","y","w","o","r","d","2">>,
    <<"k","e","y","w","o","r","d","3">> }

excludedDomains ==
  { <<"e","x","a","m","p","l","e",".","c","o","m">>,
    <<"a","n","o","t","h","e","r","e","x","a","m","p","l","e",".","c","o","m">> }

FaviconPrefix ==
  <<"h","t","t","p","s",":","/","/","w","w","w",".","g","o","o","g","l","e",
    ".","c","o","m","/","s","2","/","f","a","v","i","c","o","n","s","?",
    "d","o","m","a","i","n","=">>

(***************************************************************************)
(* The filter and the normaliser                                           *)
(***************************************************************************)
\* variant: the keyword compared with the content as written, no toLowerCase
isContentAppropriate_CaseSensitive(content) ==
  \A keyword \in inappropriateKeywords : ~includes(content, keyword)

isContentAppropriate(content) ==
  \A keyword \in inappropriateKeywords : ~includes(toLowerCase(content), keyword)

\* variant: a hostname ending with a blocked domain is excluded too
isDomainExcluded_SuffixMatch(link) ==
  Only([host \in {hostname(link)} |->
    \E d \in excludedDomains :
      Len(host) >= Len(d) /\ SubSeq(host, Len(host) - Len(d) + 1, Len(host)) = d])

\* defined for a link that new URL accepts
isDomainExcluded(link) == hostname(link) \in excludedDomains

getFaviconUrl(link) == FaviconPrefix \o hostname(link)

\* item.url || item.contentUrl || ''
LinkOf(item) == OrElse(OrElse(item.url, item.contentUrl), EmptyString)

\* the two keyword tests of the filter callback, which run before the link is parsed
PassesKeywords(item) ==
  /\ isContentAppropriate(OrElse(item.name, EmptyString))
  /\ isContentAppropriate(OrElse(item.snippet, EmptyString))

\* the filter callback throws: && reaches isDomainExcluded and new URL rejects the link
ItemThrows(item) == PassesKeywords(item) /\ URLThrows(LinkOf(item))

\* the filter callback returns true
ItemKept(item) ==
  /\ PassesKeywords(item)
  /\ ~URLThrows(LinkOf(item))
  /\ ~isDomainExcluded(LinkOf(item))

\* variant: url taken from item.url alone, no fallback to contentUrl
Normalize_NoFallback(item) ==
  [ name         |-> item.name,
    url          |-> item.url,
    snippet      |-> item.snippet,
    displayUrl   |-> OrElse(item.displayUrl, item.contentUrl),
    faviconUrl   |-> getFaviconUrl(OrElse(item.url, item.contentUrl)),
    contentUrl   |-> item.contentUrl,
    thumbnailUrl |-> item.thumbnailUrl ]

\* the map callback
Normalize(item) ==
  [ name         |-> item.name,
    url          |-> OrElse(item.url, item.contentUrl),
    snippet      |-> item.snippet,
    displayUrl   |-> OrElse(item.displayUrl, item.contentUrl),
    faviconUrl   |-> getFaviconUrl(OrElse(item.url, item.contentUrl)),
    contentUrl   |-> item.contentUrl,
    thumbnailUrl |-> item.thumbnailUrl ]

\* filterResults: threw when a callback throws, else the normalised kept items in order
filterResults(items) ==
  IF \E i \in 1..Len(items) : ItemThrows(items[i])
  THEN [threw |-> TRUE, value |-> <<>>]
  ELSE Only([kept \in {SelectSeq(items, ItemKept)} |->
         [threw |-> FALSE, value |-> [i \in 1..Len(kept) |-> Normalize(kept[i])]]])

(***************************************************************************)
(* Responses the upstream API can deliver                                  *)
(***************************************************************************)
\* length of a response's item list
MaxItems == 2

\* the item lists of a response
FilterInputs == UNION { [1..n -> FilterItems] : n \in 0..MaxItems }

\* response.data: webPages (possibly missing) with value and totalEstimatedMatches,
\* and the top-level value (possibly missing) and totalEstimatedMatches (0: missing)
WebData(items, total) ==
  [ hasWebPages |-> TRUE, webValue |-> items, webTotal |-> total,
    hasValue |-> FALSE, value |-> <<>>, totalEstimatedMatches |-> 0 ]

ImageData(items, total) ==
  [ hasWebPages |-> FALSE, webValue |-> <<>>, webTotal |-> 0,
    hasValue |-> TRUE, value |-> items, totalEstimatedMatches |-> total ]

Fulfilled(data) == [rejected |-> FALSE, data |-> data]

Rejected == [rejected |-> TRUE, data |-> WebData(<<>>, 0)]

\* the outcomes of axios.get the model draws from
Responses ==
  << Rejected,
     Fulfilled(WebData(<<itCat, itKeyword, itDog>>, 45)),
     Fulfilled(WebData(<<itDog, itBlocked, itSub>>, 20)),
     Fulfilled(WebData(<<>>, 0)),
     Fulfilled(ImageData(<<itPic>>, 45)),
     Fulfilled(ImageData(<<itPic, itNoLink>>, 20)) >>

(***************************************************************************)
(* Bounds of the model                                                     *)
(***************************************************************************)
\* requests issued in one behaviour
MaxRequests == 3

\* requests unresolved at the same time
MaxInFlight == 2

\* texts typed into the search box
Queries == {"", "cats"}

(***************************************************************************)
(* State                                                                   *)
(***************************************************************************)
VARIABLES
  query,         \* useState('')      the text of the search box
  results,       \* useState([])      the normalised items of the page shown
  tab,           \* useState('web')
  currentPage,   \* useState(1)
  totalResults,  \* useState(0)
  loading,       \* useState(false)
  error,         \* useState(null)
  hasSearched,   \* useState(false)
  inflight,      \* the calls of handleSearch suspended at await axios.get
  issued,        \* number of requests issued so far
  settled,       \* history: per request id, "pending", "fulfilled" or "failed"
  lastEvent,     \* history: the handler or continuation that ran last
  submitted      \* history: the text of query at the last click on Search

session == <<query, results, tab, currentPage, totalResults, loading, error, hasSearched>>

vars == <<query, results, tab, currentPage, totalResults, loading, error, hasSearched,
          inflight, issued, settled, lastEvent, submitted>>

NoError == "null"

ErrorMessage == "An error occurred while fetching search results."

WebEndpoint == "https://api.bing.microsoft.com/v7.0/search"

ImagesEndpoint == "https://api.bing.microsoft.com/v7.0/images/search"

Tabs == {"web", "images"}

\* the request field of an event that is about no request
NoRequest ==
  [ id |-> 0, searchType |-> "web", page |-> 0, url |-> WebEndpoint, q |-> "",
    count |-> 0, offset |-> 0, origin |-> "none",
    before |-> [ results |-> <<>>, totalResults |-> 0, currentPage |-> 0,
                 hasSearched |-> FALSE ],
    overlapped |-> FALSE ]

\* op: "init", "query", "dispatch", "ignored" (a page change out of range),
\* "fulfilled" or "failed"; req: the request dispatched or settled; page: the page
\* asked for; resp: the index in Responses of the response handled
Event(op, req, page, resp) == [op |-> op, req |-> req, page |-> page, resp |-> resp]

Init ==
  /\ query = ""
  /\ results = <<>>
  /\ tab = "web"
  /\ currentPage = 1
  /\ totalResults = 0
  /\ loading = FALSE
  /\ error = NoError
  /\ hasSearched = FALSE
  /\ inflight = {}
  /\ issued = 0
  /\ settled = <<>>
  /\ lastEvent = Event("init", NoRequest, 0, 0)
  /\ submitted = ""

\* Math.ceil(total / resultsPerPage) for a total >= 0
PageCount(total) == (total + resultsPerPage - 1) \div resultsPerPage

(***************************************************************************)
(* handleSearch up to the await: the request it builds and sends.  The     *)
(* fields origin, before and overlapped are history: the handler that      *)
(* dispatched, the session fields at that moment, and whether another      *)
(* request was unresolved at some moment of this one's flight.             *)
(***************************************************************************)
\* variant: the offset computed from a zero-based page
Request_OffsetOfNextPage(searchType, page, origin) ==
  [ id         |-> issued + 1,
    searchType |-> searchType,
    page       |-> page,
    url        |-> IF searchType = "images" THEN ImagesEndpoint ELSE WebEndpoint,
    q          |-> query,
    count      |-> resultsPerPage,
    offset     |-> page * resultsPerPage,
    origin     |-> origin,
    before     |-> [ results |-> results, totalResults |-> totalResults,
                     currentPage |-> currentPage, hasSearched |-> hasSearched ],
    overlapped |-> inflight # {} ]

Request(searchType, page, origin) ==
  [ id         |-> issued + 1,
    searchType |-> searchType,
    page       |-> page,
    url        |-> IF searchType = "images" THEN ImagesEndpoint ELSE WebEndpoint,
    q          |-> query,
    count      |-> resultsPerPage,
    offset     |-> (page - 1) * resultsPerPage,
    origin     |-> origin,
    before     |-> [ results |-> results, totalResults |-> totalResults,
                     currentPage |-> currentPage, hasSearched |-> hasSearched ],
    overlapped |-> inflight # {} ]

\* variant: setLoading(true) missing
handleSearch_NoLoading(searchType, page, origin) ==
  /\ issued < MaxRequests
  /\ Cardinality(inflight) < MaxInFlight
  /\ UNCHANGED loading
  /\ error' = NoError
  /\ inflight' = { [r EXCEPT !.overlapped = TRUE] : r \in inflight }
                   \cup { Request(searchType, page, origin) }
  /\ issued' = issued + 1
  /\ submitted' = IF origin = "submit" THEN query ELSE submitted
  /\ settled' = Append(settled, "pending")
  /\ lastEvent' = Event("dispatch", Request(searchType, page, origin), page, 0)

\* variant: setError(null) missing
handleSearch_KeepsError(searchType, page, origin) ==
  /\ issued < MaxRequests
  /\ Cardinality(inflight) < MaxInFlight
  /\ loading' = TRUE
  /\ UNCHANGED error
  /\ inflight' = { [r EXCEPT !.overlapped = TRUE] : r \in inflight }
                   \cup { Request(searchType, page, origin) }
  /\ issued' = issued + 1
  /\ submitted' = IF origin = "submit" THEN query ELSE submitted
  /\ settled' = Append(settled, "pending")
  /\ lastEvent' = Event("dispatch", Request(searchType, page, origin), page, 0)

handleSearch(searchType, page, origin) ==
  /\ issued < MaxRequests
  /\ Cardinality(inflight) < MaxInFlight
  /\ loading' = TRUE
  /\ error' = NoError
  /\ inflight' = { [r EXCEPT !.overlapped = TRUE] : r \in inflight }
                   \cup { Request(searchType, page, origin) }
  /\ issued' = issued + 1
  /\ submitted' = IF origin = "submit" THEN query ELSE submitted
  /\ settled' = Append(settled, "pending")
  /\ lastEvent' = Event("dispatch", Request(searchType, page, origin), page, 0)

(***************************************************************************)
(* handleSearch after the await: the try block on a response               *)
(***************************************************************************)
\* response.data.totalEstimatedMatches || response.data.webPages?.totalEstimatedMatches || 0
TotalOf(data) ==
  IF data.totalEstimatedMatches # 0 THEN data.totalEstimatedMatches
  ELSE IF data.hasWebPages /\ data.webTotal # 0 THEN data.webTotal
  ELSE 0

\* line 85: response.data.value for images, response.data.webPages.value
\* otherwise.  Reading value of a missing webPages throws a TypeError; a missing
\* top-level value reads as undefined (defined is FALSE and value is not used)
ItemsOf(searchType, data) ==
  IF searchType = "images"
  THEN [thrown |-> FALSE, defined |-> data.hasValue,
        value |-> IF data.hasValue THEN data.value ELSE <<>>]
  ELSE IF data.hasWebPages
  THEN [thrown |-> FALSE, defined |-> TRUE, value |-> data.webValue]
  ELSE [thrown |-> TRUE, defined |-> FALSE, value |-> <<>>]

\* the try block: thrown, or the values handed to the setters; filterResults of
\* undefined throws a TypeError (items.filter)
TryBlock(searchType, resp) ==
  LET Thrown == [thrown |-> TRUE, results |-> <<>>, total |-> 0]
  IN  IF resp.rejected THEN Thrown
      ELSE Only([items \in {ItemsOf(searchType, resp.data)} |->
             IF items.thrown \/ ~items.defined THEN Thrown
             ELSE Only([f \in {filterResults(items.value)} |->
                    IF f.threw THEN Thrown
                    ELSE [thrown |-> FALSE, results |-> f.value,
                          total |-> TotalOf(resp.data)]])])

\* the try block on each response of the catalogue, per search type
Outcomes == [searchType \in Tabs, k \in 1..Len(Responses) |-> TryBlock(searchType, Responses[k])]

\* variant: the new page appended to the items shown
OnFulfilled_Appends(r, out) ==
  /\ results' = results \o out.results
  /\ totalResults' = out.total
  /\ currentPage' = r.page
  /\ hasSearched' = TRUE
  /\ loading' = FALSE
  /\ UNCHANGED error

\* variant: the zero-based page stored
OnFulfilled_ZeroBased(r, out) ==
  /\ results' = out.results
  /\ totalResults' = out.total
  /\ currentPage' = r.page - 1
  /\ hasSearched' = TRUE
  /\ loading' = FALSE
  /\ UNCHANGED error

\* the setters of the try block, then finally
OnFulfilled(r, out) ==
  /\ results' = out.results
  /\ totalResults' = out.total
  /\ currentPage' = r.page
  /\ hasSearched' = TRUE
  /\ loading' = FALSE
  /\ UNCHANGED error

\* variant: the catch block clears the page shown
OnThrown_Clears(r) ==
  /\ error' = ErrorMessage
  /\ loading' = FALSE
  /\ results' = <<>>
  /\ UNCHANGED <<totalResults, currentPage, hasSearched>>

\* variant: loading reset on the success path only, no finally
OnThrown_NoFinally(r) ==
  /\ error' = ErrorMessage
  /\ UNCHANGED <<loading, results, totalResults, currentPage, hasSearched>>

\* variant: the catch block only logs, no message set
OnThrown_NoMessage(r) ==
  /\ loading' = FALSE
  /\ UNCHANGED <<error, results, totalResults, currentPage, hasSearched>>

\* variant: hasSearched set in finally, on the failure path too
OnThrown_MarksSearched(r) ==
  /\ error' = ErrorMessage
  /\ loading' = FALSE
  /\ hasSearched' = TRUE
  /\ UNCHANGED <<results, totalResults, currentPage>>

\* the catch block, then finally
OnThrown(r) ==
  /\ error' = ErrorMessage
  /\ loading' = FALSE
  /\ UNCHANGED <<results, totalResults, currentPage, hasSearched>>

\* variant: a response to a request that is not the latest issued is discarded
Respond_LatestOnly(r, k) ==
  /\ r \in inflight
  /\ inflight' = inflight \ {r}
  /\ LET out == Outcomes[r.searchType, k]
     IN  IF out.thrown
         THEN /\ OnThrown(r)
              /\ settled' = [settled EXCEPT ![r.id] = "failed"]
              /\ lastEvent' = Event("failed", r, r.page, k)
         ELSE /\ IF r.id = issued
                 THEN OnFulfilled(r, out)
                 ELSE /\ loading' = FALSE
                      /\ UNCHANGED <<results, totalResults, currentPage, hasSearched, error>>
              /\ settled' = [settled EXCEPT ![r.id] = "fulfilled"]
              /\ lastEvent' = Event("fulfilled", r, r.page, k)
  /\ UNCHANGED <<query, tab, issued, submitted>>

\* the request r of a suspended handleSearch settles with Responses[k]
Respond(r, k) ==
  /\ r \in inflight
  /\ inflight' = inflight \ {r}
  /\ LET out == Outcomes[r.searchType, k]
     IN  IF out.thrown
         THEN /\ OnThrown(r)
              /\ settled' = [settled EXCEPT ![r.id] = "failed"]
              /\ lastEvent' = Event("failed", r, r.page, k)
         ELSE /\ OnFulfilled(r, out)
              /\ settled' = [settled EXCEPT ![r.id] = "fulfilled"]
              /\ lastEvent' = Event("fulfilled", r, r.page, k)
  /\ UNCHANGED <<query, tab, issued, submitted>>

(***************************************************************************)
(* The other handlers                                                      *)
(***************************************************************************)
\* variant: the results of the old tab stay until the response arrives
handleTabChange_KeepsResults(newTab) ==
  /\ tab' = newTab
  /\ handleSearch(newTab, 1, "tab")
  /\ UNCHANGED <<query, results, currentPage, totalResults, hasSearched>>

\* variant: the search issued for the tab of the last render, not for newTab
handleTabChange_SearchesOldTab(newTab) ==
  /\ tab' = newTab
  /\ results' = <<>>
  /\ handleSearch(tab, 1, "tab")
  /\ UNCHANGED <<query, currentPage, totalResults, hasSearched>>

handleTabChange(newTab) ==
  /\ tab' = newTab
  /\ results' = <<>>
  /\ handleSearch(newTab, 1, "tab")
  /\ UNCHANGED <<query, currentPage, totalResults, hasSearched>>

\* variant: no upper bound on the page
handlePageChange_NoUpperBound(newPage) ==
  IF newPage > 0
  THEN /\ handleSearch(tab, newPage, "page")
       /\ UNCHANGED <<query, results, tab, currentPage, totalResults, hasSearched>>
  ELSE /\ lastEvent' = Event("ignored", NoRequest, newPage, 0)
       /\ UNCHANGED <<session, inflight, issued, settled, submitted>>

handlePageChange(newPage) ==
  IF newPage > 0 /\ newPage <= PageCount(totalResults)
  THEN /\ handleSearch(tab, newPage, "page")
       /\ UNCHANGED <<query, results, tab, currentPage, totalResults, hasSearched>>
  ELSE /\ lastEvent' = Event("ignored", NoRequest, newPage, 0)
       /\ UNCHANGED <<session, inflight, issued, settled, submitted>>

(***************************************************************************)
(* The user's actions, as the rendered elements allow them                 *)
(***************************************************************************)
\* onChange of the input
ChangeQuery(q) ==
  /\ q # query
  /\ query' = q
  /\ lastEvent' = Event("query", NoRequest, 0, 0)
  /\ UNCHANGED <<results, tab, currentPage, totalResults, loading, error, hasSearched,
                 inflight, issued, settled, submitted>>

\* variant: the Search button never disabled
SubmitSearch_NeverDisabled ==
  /\ handleSearch(tab, 1, "submit")
  /\ UNCHANGED <<query, results, tab, currentPage, totalResults, hasSearched>>

\* the Search button, disabled while loading
SubmitSearch ==
  /\ ~loading
  /\ handleSearch(tab, 1, "submit")
  /\ UNCHANGED <<query, results, tab, currentPage, totalResults, hasSearched>>

\* the Web and Images buttons, rendered once hasSearched
SwitchCategory(newTab) ==
  /\ hasSearched
  /\ handleTabChange(newTab)

\* the Previous button, disabled on page 1
PreviousPage ==
  /\ hasSearched
  /\ currentPage # 1
  /\ handlePageChange(currentPage - 1)

\* the Next button, disabled on the last page
NextPage ==
  /\ hasSearched
  /\ currentPage # PageCount(totalResults)
  /\ handlePageChange(currentPage + 1)

Settle == \E r \in inflight : \E k \in 1..Len(Responses) : Respond(r, k)

Next ==
  \/ \E q \in Queries : ChangeQuery(q)
  \/ SubmitSearch
  \/ \E newTab \in Tabs : SwitchCategory(newTab)
  \/ PreviousPage
  \/ NextPage
  \/ Settle

Spec == Init /\ [][Next]_vars

\* every request sent is eventually settled
FairSpec == Spec /\ WF_vars(Settle)

(***************************************************************************)
(* One search whose response carries any list of the raw items: the        *)
(* filter and the normaliser applied by handleSearch to bounded inputs.    *)
(* Here the field resp of the event is the item list of the response.      *)
(***************************************************************************)
\* the first search of a session
FilterSubmit ==
  /\ issued = 0
  /\ SubmitSearch

\* the request r settles with a web response carrying items
FilterRespond(r, items) ==
  /\ r \in inflight
  /\ inflight' = inflight \ {r}
  /\ LET out == TryBlock(r.searchType, Fulfilled(WebData(items, resultsPerPage)))
     IN  IF out.thrown
         THEN /\ OnThrown(r)
              /\ settled' = [settled EXCEPT ![r.id] = "failed"]
              /\ lastEvent' = Event("failed", r, r.page, items)
         ELSE /\ OnFulfilled(r, out)
              /\ settled' = [settled EXCEPT ![r.id] = "fulfilled"]
              /\ lastEvent' = Event("fulfilled", r, r.page, items)
  /\ UNCHANGED <<query, tab, issued, submitted>>

FilterSettle == \E r \in inflight : \E items \in FilterInputs : FilterRespond(r, items)

FilterNext ==
  \/ FilterSubmit
  \/ FilterSettle

FilterSpec == Init /\ [][FilterNext]_vars

TypeOK ==
  /\ query \in Queries
  /\ tab \in Tabs
  /\ currentPage \in Nat
  /\ totalResults \in Nat
  /\ loading \in BOOLEAN
  /\ error \in {NoError, ErrorMessage}
  /\ hasSearched \in BOOLEAN
  /\ issued \in 0..MaxRequests
  /\ Len(settled) = issued
  /\ Cardinality(inflight) <= MaxInFlight
  /\ submitted \in Queries

(***************************************************************************)
(* Properties                                                              *)
(***************************************************************************)
\* newPage is within 1..ceil(total / 20), stated without the division
InRange(newPage, total) == newPage >= 1 /\ (newPage - 1) * 20 < total

\* C1: a page change to a page below 1 or above ceil(totalResults / 20) issues no
\* request and changes no session field; a page change to a page in range issues
\* one request for the current tab and that page.
C1_PageChangeGuard ==
  [][ /\ lastEvent'.op = "ignored" =>
           /\ ~InRange(lastEvent'.page, totalResults)
           /\ UNCHANGED <<session, inflight, issued>>
      /\ (lastEvent'.op = "dispatch" /\ lastEvent'.req.origin = "page" /\ issued' # issued) =>
           /\ InRange(lastEvent'.page, totalResults)
           /\ issued' = issued + 1
           /\ \E r \in inflight' :
                /\ r.id = issued'
                /\ r.searchType = tab
                /\ r.page = lastEvent'.page
                /\ Cardinality(inflight') = Cardinality(inflight) + 1 ]_vars

\* C1 witness: a Next click on a page beyond the last one was ignored
C1_Witness ==
  /\ lastEvent.op = "ignored"
  /\ lastEvent.page = currentPage + 1
  /\ hasSearched

\* C2 as stated: after a failed Submit search or Change page request the page
\* shown is the one from immediately before that dispatch started, and the error
\* message is set.
C2_AsBeforeDispatch ==
  (lastEvent.op = "failed" /\ lastEvent.req.origin \in {"submit", "page"}) =>
     /\ results = lastEvent.req.before.results
     /\ totalResults = lastEvent.req.before.totalResults
     /\ currentPage = lastEvent.req.before.currentPage
     /\ hasSearched = lastEvent.req.before.hasSearched
     /\ error = ErrorMessage

\* C2 amended: handling a failure sets the error message and leaves results,
\* totalResults, currentPage and hasSearched as they were immediately before the
\* failure was handled; they are the values from before the dispatch when no other
\* request was unresolved during it.
C2_FailurePreservesPage ==
  [][ lastEvent'.op = "failed" =>
        /\ UNCHANGED <<results, totalResults, currentPage, hasSearched>>
        /\ error' = ErrorMessage
        /\ (lastEvent'.req.origin \in {"submit", "page"} /\ ~lastEvent'.req.overlapped) =>
              /\ results' = lastEvent'.req.before.results
              /\ totalResults' = lastEvent'.req.before.totalResults
              /\ currentPage' = lastEvent'.req.before.currentPage
              /\ hasSearched' = lastEvent'.req.before.hasSearched ]_vars

\* C2 witness: the request for page 2 failed and page 1's items are still shown
C2_Witness ==
  /\ lastEvent.op = "failed"
  /\ lastEvent.req.origin = "page"
  /\ lastEvent.page = 2
  /\ currentPage = 1
  /\ results # <<>>
  /\ error = ErrorMessage

\* C3: a fulfilled response always installs its own results, total and page,
\* whether or not its request is the latest one issued: the response that
\* resolves last decides the state.
C3_LastResponseWins ==
  [][ lastEvent'.op = "fulfilled" =>
        LET r == lastEvent'.req
            out == Outcomes[r.searchType, lastEvent'.resp]
        IN  /\ results' = out.results
            /\ totalResults' = out.total
            /\ currentPage' = r.page ]_vars

\* C3 witness: nothing is in flight, the latest request issued was fulfilled, and
\* the state is that of an older request's response
C3_Witness ==
  /\ inflight = {}
  /\ lastEvent.op = "fulfilled"
  /\ lastEvent.req.id < issued
  /\ settled[issued] = "fulfilled"
  /\ results = Outcomes[lastEvent.req.searchType, lastEvent.resp].results
  /\ results # <<>>

\* C4 as stated: at most one request is unresolved at any time.
C4_AtMostOneInFlight == Cardinality(inflight) <= 1

\* C4 amended: Submit search dispatches only while loading is false; Switch
\* category and Change page are not so restricted, and two requests can be
\* unresolved at once.
C4_SubmitOnlyWhenIdle ==
  [][ (lastEvent'.op = "dispatch" /\ lastEvent'.req.origin = "submit" /\ issued' # issued)
        => ~loading ]_vars

\* C4 witness: a submitted request is unresolved together with a later one
C4_Witness ==
  /\ Cardinality(inflight) = 2
  /\ \E r \in inflight : r.origin = "submit" /\ r.id < issued

\* C5 as stated: while the request of a category switch is unresolved, results is
\* empty.
C5_EmptyUntilOwnResponse ==
  \A r \in inflight : r.origin = "tab" => results = <<>>

\* C5 amended: a category switch empties results at once, and results stays empty
\* until a response is fulfilled, which may be the response to another request.
C5_ClearedUntilSomeResponse ==
  [][ /\ (lastEvent'.op = "dispatch" /\ lastEvent'.req.origin = "tab" /\ issued' # issued)
           => results' = <<>>
      /\ (results = <<>> /\ results' # <<>>) => lastEvent'.op = "fulfilled"
      /\ \A r \in inflight' : (r.origin = "tab" /\ ~r.overlapped) => results' = <<>> ]_vars

\* C5 witness: a switch has emptied a non-empty page and its request is unresolved
C5_Witness ==
  \E r \in inflight :
    /\ r.origin = "tab"
    /\ r.before.results # <<>>
    /\ results = <<>>

\* C6 as stated: when the dispatch of a category switch has completed, fulfilled
\* or failed, currentPage is 1.
C6_PageOneAfterSwitch ==
  (lastEvent.op \in {"fulfilled", "failed"} /\ lastEvent.req.origin = "tab")
    => currentPage = 1

\* an element of results as lines 57-64 build it, the hostname of its link given
Stored(name, url, snippet, displayUrl, host, contentUrl, thumbnailUrl) ==
  [ name |-> name, url |-> url, snippet |-> snippet, displayUrl |-> displayUrl,
    faviconUrl |-> <<"h","t","t","p","s",":","/","/","w","w","w",".","g","o","o","g","l","e",
                     ".","c","o","m","/","s","2","/","f","a","v","i","c","o","n","s","?",
                     "d","o","m","a","i","n","=">> \o host,
    contentUrl |-> contentUrl, thumbnailUrl |-> thumbnailUrl ]

\* the pages the responses of the catalogue are to leave, written out from
\* Search.tsx lines 31-65 and 85-86 for the category and the response: the
\* second response read as web pages keeps Cat and Dog ("Buy KEYWORD1 now" is
\* dropped), the third keeps Dog and Sub (example.com is dropped), the fourth
\* has no item, the fifth read as images keeps Pic; every other pair fails
Pages ==
  LET meow == <<"m","e","o","w">>
      cat  == Stored(<<"C","a","t">>, <<"h","t","t","p","s",":","/","/","a",".","i","o","/","1">>,
                     meow, <<"a",".","i","o","/","1">>, <<"a",".","i","o">>,
                     Undefined, Undefined)
      dog  == Stored(<<"D","o","g">>, <<"h","t","t","p",":","/","/","b",".","i","o">>,
                     Undefined, Undefined, <<"b",".","i","o">>, Undefined, Undefined)
      sub  == Stored(<<"S","u","b">>,
                     <<"h","t","t","p","s",":","/","/","s","u","b",".","e","x","a","m","p","l","e",
                       ".","c","o","m","/">>,
                     meow, Undefined, <<"s","u","b",".","e","x","a","m","p","l","e",".","c","o","m">>,
                     Undefined, Undefined)
      pic  == Stored(<<"P","i","c">>,
                     <<"h","t","t","p","s",":","/","/","x",".","c","o","m","/","a",".","j","p","g">>,
                     Undefined,
                     <<"h","t","t","p","s",":","/","/","x",".","c","o","m","/","a",".","j","p","g">>,
                     <<"x",".","c","o","m">>,
                     <<"h","t","t","p","s",":","/","/","x",".","c","o","m","/","a",".","j","p","g">>,
                     <<"h","t","t","p","s",":","/","/","t",".","c","o","/","a">>)
  IN  (<<"web", 2>> :> [results |-> <<cat, dog>>, total |-> 45])
        @@ (<<"web", 3>> :> [results |-> <<dog, sub>>, total |-> 20])
        @@ (<<"web", 4>> :> [results |-> <<>>, total |-> 0])
        @@ (<<"images", 5>> :> [results |-> <<pic>>, total |-> 45])

\* C7: a Submit search fulfilled with no other request unresolved during its
\* dispatch leaves results = the filtered items of its response (the page written
\* out for it in Pages, replacing what was shown), totalResults = the response's
\* total, currentPage = 1, hasSearched, not loading, and no error.
C7_SubmitSuccess ==
  (lastEvent.op = "fulfilled" /\ lastEvent.req.origin = "submit" /\ ~lastEvent.req.overlapped) =>
     /\ <<lastEvent.req.searchType, lastEvent.resp>> \in DOMAIN Pages
     /\ results = Pages[<<lastEvent.req.searchType, lastEvent.resp>>].results
     /\ totalResults = Pages[<<lastEvent.req.searchType, lastEvent.resp>>].total
     /\ currentPage = 1
     /\ hasSearched
     /\ ~loading
     /\ error = NoError

\* C7 witness: a second search replaced a non-empty page by a different one
C7_Witness ==
  /\ lastEvent.op = "fulfilled"
  /\ lastEvent.req.origin = "submit"
  /\ ~lastEvent.req.overlapped
  /\ lastEvent.req.before.results # <<>>
  /\ results # <<>>
  /\ results # lastEvent.req.before.results

\* C8 as stated: once hasSearched, 1 <= currentPage <= ceil(totalResults / 20).
C8_PageWithinTotal == hasSearched => InRange(currentPage, totalResults)

\* C8 amended: currentPage >= 1 in every state, every request is for a page >= 1,
\* and a Change page request is for a page within ceil(totalResults / 20) of the
\* total shown when it was issued; currentPage can exceed ceil(totalResults / 20)
\* after a response whose total is 0 or below the page requested.
C8_PageAtLeastOne ==
  /\ currentPage >= 1
  /\ \A r \in inflight :
       /\ r.page >= 1
       /\ r.origin = "page" => InRange(r.page, r.before.totalResults)

\* C8 witness: the page shown is beyond the last page of the total shown
C8_Witness ==
  /\ hasSearched
  /\ currentPage = 2
  /\ totalResults = 20

\* C9: every request carries count 20 and offset (page - 1) * 20, a non-negative
\* multiple of 20, and goes to the images endpoint iff its category is images.
C9_RequestShape ==
  \A r \in inflight :
    /\ r.count = 20
    /\ r.offset = (r.page - 1) * 20
    /\ r.offset >= 0
    /\ r.offset % 20 = 0
    /\ (r.url = ImagesEndpoint) <=> (r.searchType = "images")
    /\ r.url \in {ImagesEndpoint, WebEndpoint}

\* C9 witness: a request for page 2 of images, offset 20
C9_Witness ==
  \E r \in inflight : r.searchType = "images" /\ r.page = 2 /\ r.offset = 20

\* C10: if every request is eventually settled, loading never stays true; and
\* loading turns false only when a response is handled.
C10_ReturnsToIdle ==
  /\ loading ~> ~loading
  /\ [][ (loading /\ ~loading') => lastEvent'.op \in {"fulfilled", "failed"} ]_vars

\* C10 witness: a failed request has returned the session to idle
C10_Witness ==
  /\ lastEvent.op = "failed"
  /\ ~loading
  /\ inflight = {}
  /\ lastEvent.req.origin = "submit"

\* the category and the response of the catalogue whose dispatch is to fail, read
\* from Search.tsx lines 79-94: the first response is a rejected request; the
\* second, third and fourth have no top-level value, so that an images search
\* hands undefined to filterResults; the fifth and sixth have no webPages, so
\* that a web search throws at line 85; the sixth read as images holds an item
\* with neither url nor contentUrl, for which new URL('') throws
Failing ==
  { <<"web", 1>>, <<"images", 1>>, <<"images", 2>>, <<"images", 3>>, <<"images", 4>>,
    <<"web", 5>>, <<"web", 6>>, <<"images", 6>> }

\* C11: every failure in a dispatch cycle, a rejected request or an exception while
\* extracting, filtering or normalising, ends the cycle in the catch block: the
\* request is settled as failed, the error message is set and loading is false;
\* every response listed in Failing ends so, and no request is lost: one that is
\* not in flight has been settled as fulfilled or failed.
C11_FailuresCaught ==
  /\ lastEvent.op = "failed" =>
       /\ error = ErrorMessage
       /\ ~loading
       /\ lastEvent.req \notin inflight
       /\ settled[lastEvent.req.id] = "failed"
  /\ lastEvent.op \in {"fulfilled", "failed"} =>
       (lastEvent.op = "failed" <=> <<lastEvent.req.searchType, lastEvent.resp>> \in Failing)
  /\ \A i \in 1..issued :
       /\ settled[i] \in {"pending", "fulfilled", "failed"}
       /\ settled[i] = "pending" <=> \E r \in inflight : r.id = i

\* C11 witness: a fulfilled request whose items made the filter throw ended in the
\* catch block
C11_Witness ==
  /\ lastEvent.op = "failed"
  /\ ~Responses[lastEvent.resp].rejected
  /\ Responses[lastEvent.resp].data.hasValue
  /\ lastEvent.req.searchType = "images"
  /\ error = ErrorMessage
  /\ ~loading

\* the link of an item (url, else contentUrl) is an absolute URL
UsableLink(item) == ~URLThrows(LinkOf(item))

\* an element of results made from the raw item
Shows(res, item) ==
  /\ res.name = item.name
  /\ res.url = LinkOf(item)
  /\ res.snippet = item.snippet

\* the raw item has an element of results
Shown(item) == \E i \in 1..Len(results) : Shows(results[i], item)

\* C12: a response item whose link is absent, empty or not an absolute URL is
\* excluded silently: the dispatch is fulfilled, results holds the filtered
\* remaining items in their order, and no error message is set.
C12_BadLinkExcluded ==
  (lastEvent.op \in {"fulfilled", "failed"}
     /\ \E j \in 1..Len(lastEvent.resp) : ~UsableLink(lastEvent.resp[j])) =>
        /\ lastEvent.op = "fulfilled"
        /\ error = NoError
        /\ results = filterResults(SelectSeq(lastEvent.resp, UsableLink)).value

\* the hostname that new URL gives the link of a raw item, by the URL Standard,
\* for the raw items whose link is well-formed; itNoLink, itEmptyLink, itBadLink,
\* itKeywordBadLink (no scheme) and itSpaceHost have no hostname: new URL throws
HostOf ==
  LET aio     == <<"a",".","i","o">>
      example == <<"e","x","a","m","p","l","e",".","c","o","m">>
  IN  (itCat :> aio) @@ (itKeyword :> aio) @@ (itSnippetKeyword :> aio)
        @@ (itInWord :> aio) @@ (itKelvin :> aio)
        @@ (itDog :> <<"b",".","i","o">>)
        @@ (itPic :> <<"x",".","c","o","m">>)
        @@ (itBlocked :> example) @@ (itUpperHost :> example) @@ (itPort :> example)
        @@ (itUserinfo :> example) @@ (itFtp :> example) @@ (itFullwidth :> example)
        @@ (itSub :> <<"s","u","b",".">> \o example)
        @@ (itOtherDomain :> <<"a","n","o","t","h","e","r">> \o example)
        @@ (itSuffix :> <<"n","o","t">> \o example)
        @@ (itTrailingDot :> example \o <<".">>)

\* the raw items whose title or snippet contains a blocked keyword
Flagged == {itKeyword, itKeywordBadLink, itSnippetKeyword, itInWord, itKelvin}

\* C14: an item with a well-formed link that passes the keyword rule is dropped
\* iff the hostname of its link is an entry of excludedDomains; hosts written
\* example.com, EXAMPLE.COM, example.com:8080, user@example.com, example.com
\* with a fullwidth e and anotherexample.com are dropped, under the scheme ftp
\* too; sub.example.com, notexample.com and example.com. (with the dot of the
\* root) are retained.
C14_DomainRule ==
  lastEvent.op = "fulfilled" =>
    /\ \A j \in 1..Len(lastEvent.resp) :
         LET item == lastEvent.resp[j]
         IN  (item \in DOMAIN HostOf /\ item \notin Flagged) =>
               (Shown(item) <=> ~(\E d \in excludedDomains : HostOf[item] = d))
    /\ \A item \in {itBlocked, itUpperHost, itPort, itOtherDomain, itUserinfo, itFtp,
                    itFullwidth} :
         ~Shown(item)
    /\ \A item \in {itSub, itSuffix, itTrailingDot} :
         (\E j \in 1..Len(lastEvent.resp) : lastEvent.resp[j] = item) => Shown(item)

\* C14 witness: of example.com and sub.example.com only the latter is shown
C14_Witness ==
  /\ lastEvent.op = "fulfilled"
  /\ lastEvent.resp = <<itBlocked, itSub>>
  /\ Len(results) = 1
  /\ Shown(itSub)

\* v || '' for a title or snippet
TextOf(v) == IF v = Undefined THEN EmptyString ELSE v

\* text contains a blocked keyword, compared character by character without case
HasKeyword(text) ==
  \E keyword \in inappropriateKeywords :
    \E off \in 0..(Len(text) - Len(keyword)) :
      \A p \in 1..Len(keyword) : toLowerCase(<<text[off + p]>>) = <<keyword[p]>>

\* neither the title nor the snippet of the item contains a blocked keyword
Clean(item) == ~HasKeyword(TextOf(item.name)) /\ ~HasKeyword(TextOf(item.snippet))

\* the link of the item is well-formed and its hostname is not blocked
AllowedLink(item) ==
  /\ item \in DOMAIN HostOf
  /\ HostOf[item] \notin excludedDomains

\* C15: for a list of items with well-formed, non-blocked links the dispatch is
\* fulfilled and results is the subsequence, in input order, of the items whose
\* title and snippet (empty when missing) contain no blocked keyword, whatever
\* the case of the letters.
C15_KeywordRule ==
  (lastEvent.op \in {"fulfilled", "failed"}
     /\ \A j \in 1..Len(lastEvent.resp) : AllowedLink(lastEvent.resp[j])) =>
        LET clean == SelectSeq(lastEvent.resp, Clean)
        IN  /\ lastEvent.op = "fulfilled"
            /\ Len(results) = Len(clean)
            /\ \A i \in 1..Len(clean) : Shows(results[i], clean[i])

\* C15 witness: of "Buy KEYWORD1 now" and a page without snippet only the latter
\* is shown
C15_Witness ==
  /\ lastEvent.op = "fulfilled"
  /\ lastEvent.resp = <<itKeyword, itDog>>
  /\ Len(results) = 1
  /\ Shown(itDog)

\* C13: every element of results has a non-empty url: the url of the raw item it
\* was made from when that is non-empty, and otherwise the item's contentUrl.
C13_UrlNeverEmpty ==
  \A i \in 1..Len(results) :
    /\ results[i].url # Undefined
    /\ results[i].url # EmptyString
    /\ \E item \in FilterItems :
         /\ results[i].name = item.name
         /\ results[i].snippet = item.snippet
         /\ results[i].contentUrl = item.contentUrl
         /\ results[i].url =
              (IF item.url # Undefined /\ item.url # EmptyString
               THEN item.url ELSE item.contentUrl)

\* C13 witness: an image without url is shown with its contentUrl as url
C13_Witness ==
  \E i \in 1..Len(results) :
    /\ results[i].name = itPic.name
    /\ results[i].url = itPic.contentUrl
    /\ itPic.url = Undefined

\* C16 as stated: hasSearched is false before any dispatch and true in every state
\* after the first dispatched query has completed.
C16_TrueAfterFirstCompletion ==
  /\ issued = 0 => ~hasSearched
  /\ (\E i \in 1..Len(settled) : settled[i] \in {"fulfilled", "failed"}) => hasSearched

\* C16 amended: hasSearched is false initially, is true exactly in the states
\* reached after some dispatched query has been fulfilled (a failed query leaves
\* it unchanged), and once true never returns to false.
C16_TrueAfterFirstSuccess ==
  /\ [](issued = 0 => ~hasSearched)
  /\ [](hasSearched <=> \E i \in 1..Len(settled) : settled[i] = "fulfilled")
  /\ [][hasSearched => hasSearched']_vars

\* C16 witness: the first query failed, a later one was fulfilled
C16_Witness ==
  /\ hasSearched
  /\ settled # <<>>
  /\ settled[1] = "failed"

\* C17 as stated: loading is true iff at least one dispatched request is
\* unresolved.
C17_LoadingIffInFlight == loading <=> inflight # {}

\* C17 amended: loading true implies that a request is unresolved, and a request
\* that has shared no moment of its flight with another one implies loading true;
\* when requests overlap, the first response handled sets loading false while the
\* others are still unresolved.
C17_LoadingImpliesInFlight ==
  /\ loading => inflight # {}
  /\ \A r \in inflight : ~r.overlapped => loading

\* C17 witness: a page request alone in flight, loading shown
C17_Witness ==
  /\ loading
  /\ \E r \in inflight : ~r.overlapped /\ r.origin = "page"

\* the categories of request whose response can have produced the results shown;
\* a single one when results is non-empty, because a request reads only the
\* collection of its own category from a response
ProducerCategories ==
  { searchType \in Tabs :
      \E k \in 1..Len(Responses) :
        /\ ~Outcomes[searchType, k].thrown
        /\ Outcomes[searchType, k].results = results }

\* C18 as stated: whenever loading is false and results is non-empty, results were
\* produced by a request whose category is the current tab.
C18_ResultsMatchTab ==
  (~loading /\ results # <<>>) => tab \in ProducerCategories

\* C18 amended: the most recently issued request is for the current tab, and
\* results produced by its response are results of the current tab; results
\* produced by the response to an older request can be of the other category.
C18_LatestRequestMatchesTab ==
  /\ \A r \in inflight : r.id = issued => r.searchType = tab
  /\ (lastEvent.op = "fulfilled" /\ lastEvent.req.id = issued) =>
        /\ lastEvent.req.searchType = tab
        /\ results # <<>> => ProducerCategories = {tab}

\* C18 witness: the response to a switch to images, the latest request, is shown
C18_Witness ==
  /\ lastEvent.op = "fulfilled"
  /\ lastEvent.req.id = issued
  /\ lastEvent.req.origin = "tab"
  /\ tab = "images"
  /\ results # <<>>
  /\ ~loading

\* C19 as stated: in the state a dispatch completes in with no request left in
\* flight, error is non-null iff that dispatch failed.
C19_ErrorIffLastFailed ==
  (inflight = {} /\ lastEvent.op \in {"fulfilled", "failed"}) =>
     (error # NoError <=> lastEvent.op = "failed")

\* C19 amended: every dispatch starts with error null; a dispatch that fails leaves
\* the message set; a dispatch that is fulfilled leaves error null when no other
\* request was unresolved during it, and otherwise leaves the message of a
\* request that failed in the meantime; error is non-null only after a failure.
C19_ErrorAfterCompletion ==
  /\ lastEvent.op = "dispatch" => error = NoError
  /\ lastEvent.op = "failed" => error = ErrorMessage
  /\ (lastEvent.op = "fulfilled" /\ ~lastEvent.req.overlapped) => error = NoError
  /\ error # NoError => \E i \in 1..Len(settled) : settled[i] = "failed"

\* C19 witness: a search fulfilled after an earlier one failed shows no message
C19_Witness ==
  /\ lastEvent.op = "fulfilled"
  /\ ~lastEvent.req.overlapped
  /\ error = NoError
  /\ \E i \in 1..Len(settled) : settled[i] = "failed"
  /\ inflight = {}

\* C20 as stated: every request issued by Change page or Switch category carries
\* the query text of the most recent Submit search, even when the input was
\* edited after that submit.
C20_CarriesSubmittedQuery ==
  (lastEvent.op = "dispatch" /\ lastEvent.req.origin \in {"page", "tab"}) =>
     lastEvent.req.q = submitted

====
